---- MODULE Spec2Model ----
(***************************************************************************)
(* Ingestion, deduplication, image acquisition and storage adapters of the *)
(* property-listing scraper.  Strings are TLA+ strings, so the fingerprint *)
(* keys are the very concatenations the code builds.                       *)
(***************************************************************************)
EXTENDS Integers, Sequences, FiniteSets, TLC

VARIABLES
    db,        \* db[b]: what backend b stores: [properties, history]
    last,      \* the last call made: [op, arg, res], res[b] = [ok, value]
    now,       \* Date.now(), in milliseconds
    results,   \* results[c]: the records the last scrape of client c returned
    downloads, \* the image downloads of the job that is running, one by one
    invocation, \* the scrape in progress or just over: its steps so far
    calls      \* the corpus calls in progress, step by step, and the state of the file

vars == <<db, last, now, results, downloads, invocation, calls>>

(***************************************************************************)
(* Bounds of the model.                                                    *)
(***************************************************************************)
MaxCorpus == 2
MaxIds == 2
MaxHistory == 2
MaxExisting == 1
MaxDedupCorpus == 2
MaxBatch == 2

(***************************************************************************)
(* Sequence helpers (Array.prototype.filter / findIndex / Set.has).        *)
(***************************************************************************)
RECURSIVE SelectSeqBy(_, _)
Range(s) == {s[i] : i \in 1..Len(s)}

SeqsUpTo(S, n) == UNION {[1..k -> S] : k \in 0..n}

\* findIndex: the first index whose element has the id, 0 for -1.
FindIndex(properties, id) ==
    IF \E i \in 1..Len(properties) : properties[i].id = id
    THEN CHOOSE i \in 1..Len(properties) :
            /\ properties[i].id = id
            /\ \A j \in 1..(i - 1) : properties[j].id # id
    ELSE 0

\* properties.filter(p => !ids.has(p.id))
SelectSeqBy(properties, ids) ==
    IF properties = <<>> THEN <<>>
    ELSE LET rest == SelectSeqBy(Tail(properties), ids)
         IN  IF Head(properties).id \in ids THEN rest
             ELSE <<Head(properties)>> \o rest

(***************************************************************************)
(* Property and HistoryEntry.                                              *)
(***************************************************************************)
PlaceholderImage == "https://placehold.co/600x400.png"

\* The fields of a Property that the operations below read; image_url is the
\* first of imgs, or the placeholder when there is none.
Property(id, url, otitle, etitle, loc, price, bed, bath, ref, permit, imgs) ==
    [id |-> id, original_url |-> url, original_title |-> otitle,
     enhanced_title |-> etitle, location |-> loc, price |-> price,
     bedrooms |-> bed, bathrooms |-> bath, reference_id |-> ref,
     permit_number |-> permit, image_urls |-> imgs,
     image_url |-> IF Len(imgs) > 0 THEN imgs[1] ELSE PlaceholderImage]

Backends == {"filesystem", "memory"}

Void == [kind |-> "void"]
Returned(s, v) == [state |-> s, ok |-> TRUE, value |-> v]
Thrown(s, e) == [state |-> s, ok |-> FALSE, value |-> e]

\* `hist-${Date.now()}-${Math.random().toString(36).substr(2, 9)}`
RandomSuffixes == {"k3x9", "q7zd"}
HistoryId(t, rnd) == "hist-" \o ToString(t) \o "-" \o rnd
NewEntry(entry, t, rnd) ==
    [type |-> entry.type, details |-> entry.details,
     propertyCount |-> entry.propertyCount,
     id |-> HistoryId(t, rnd), date |-> t]

(***************************************************************************)
(* FilesystemAdapter: every method reads the whole document and writes it  *)
(* back.                                                                   *)
(***************************************************************************)
FilesystemAdapter_getAllProperties(s) == Returned(s, s.properties)

FilesystemAdapter_saveProperties(s, properties) ==
    Returned([s EXCEPT !.properties = properties], Void)

FilesystemAdapter_updateProperty(s, property) ==
    LET index == FindIndex(s.properties, property.id)
    IN  IF index # 0
        THEN Returned([s EXCEPT !.properties[index] = property], Void)
        ELSE Thrown(s, "not found")

FilesystemAdapter_deleteProperty(s, propertyId) ==
    Returned([s EXCEPT !.properties = SelectSeqBy(@, {propertyId})], Void)

FilesystemAdapter_bulkDeleteProperties(s, propertyIds) ==
    LET filtered == SelectSeqBy(s.properties, Range(propertyIds))
        deletedCount == Len(s.properties) - Len(filtered)
    IN  Returned([s EXCEPT !.properties = filtered],
                 [deletedCount |-> deletedCount,
                  notFoundCount |-> Len(propertyIds) - deletedCount])

FilesystemAdapter_getAllHistory(s) == Returned(s, s.history)

FilesystemAdapter_saveHistoryEntry(s, entry, t, rnd) ==
    Returned([s EXCEPT !.history = Append(@, NewEntry(entry, t, rnd))], Void)

FilesystemAdapter_clearHistory(s) == Returned([s EXCEPT !.history = <<>>], Void)

\* saveProperties([]) and then a history entry 'All data cleared'; the
\* history document is not emptied.
FilesystemAdapter_clearAllData(s, t, rnd) ==
    FilesystemAdapter_saveHistoryEntry(
        FilesystemAdapter_saveProperties(s, <<>>).state,
        [type |-> "BULK", propertyCount |-> 0, details |-> "All data cleared"],
        t, rnd)

FilesystemAdapter_getStats(s) ==
    Returned(s, [propertyCount |-> Len(s.properties),
                 historyCount |-> Len(s.history)])

(***************************************************************************)
(* InMemoryAdapter (server side: initialize and persist touch nothing).    *)
(***************************************************************************)
InMemoryAdapter_getAllProperties(s) == Returned(s, s.properties)

InMemoryAdapter_saveProperties(s, properties) ==
    Returned([s EXCEPT !.properties = properties], Void)

\* An absent id is pushed at the end, and the call returns normally.
InMemoryAdapter_updateProperty(s, property) ==
    LET index == FindIndex(s.properties, property.id)
    IN  IF index # 0
        THEN Returned([s EXCEPT !.properties[index] = property], Void)
        ELSE Returned([s EXCEPT !.properties = Append(@, property)], Void)

InMemoryAdapter_deleteProperty(s, propertyId) ==
    Returned([s EXCEPT !.properties = SelectSeqBy(@, {propertyId})], Void)

InMemoryAdapter_bulkDeleteProperties(s, propertyIds) ==
    LET filtered == SelectSeqBy(s.properties, Range(propertyIds))
        deletedCount == Len(s.properties) - Len(filtered)
    IN  Returned([s EXCEPT !.properties = filtered],
                 [deletedCount |-> deletedCount,
                  notFoundCount |-> Len(propertyIds) - deletedCount])

InMemoryAdapter_getAllHistory(s) == Returned(s, s.history)

InMemoryAdapter_saveHistoryEntry(s, entry, t, rnd) ==
    Returned([s EXCEPT !.history = Append(@, NewEntry(entry, t, rnd))], Void)

InMemoryAdapter_clearHistory(s) == Returned([s EXCEPT !.history = <<>>], Void)

InMemoryAdapter_clearAllData(s) ==
    Returned([s EXCEPT !.properties = <<>>, !.history = <<>>], Void)

InMemoryAdapter_getStats(s) ==
    Returned(s, [propertyCount |-> Len(s.properties),
                 historyCount |-> Len(s.history)])

(***************************************************************************)
(* The DatabaseAdapter interface: a call on backend b.                     *)
(***************************************************************************)
getAllProperties(b, s) ==
    IF b = "filesystem" THEN FilesystemAdapter_getAllProperties(s)
    ELSE InMemoryAdapter_getAllProperties(s)

saveProperties(b, s, properties) ==
    IF b = "filesystem" THEN FilesystemAdapter_saveProperties(s, properties)
    ELSE InMemoryAdapter_saveProperties(s, properties)

updateProperty(b, s, property) ==
    IF b = "filesystem" THEN FilesystemAdapter_updateProperty(s, property)
    ELSE InMemoryAdapter_updateProperty(s, property)

\* As deleteProperty, an absent id refused the way updateProperty of the
\* filesystem adapter refuses it.
deletePropertyOfPresentId(b, s, propertyId) ==
    IF FindIndex(s.properties, propertyId) = 0 THEN Thrown(s, "not found")
    ELSE Returned([s EXCEPT !.properties = SelectSeqBy(@, {propertyId})], Void)

deleteProperty(b, s, propertyId) ==
    IF b = "filesystem" THEN FilesystemAdapter_deleteProperty(s, propertyId)
    ELSE InMemoryAdapter_deleteProperty(s, propertyId)

bulkDeleteProperties(b, s, propertyIds) ==
    IF b = "filesystem" THEN FilesystemAdapter_bulkDeleteProperties(s, propertyIds)
    ELSE InMemoryAdapter_bulkDeleteProperties(s, propertyIds)

getAllHistory(b, s) ==
    IF b = "filesystem" THEN FilesystemAdapter_getAllHistory(s)
    ELSE InMemoryAdapter_getAllHistory(s)

saveHistoryEntry(b, s, entry, t, rnd) ==
    IF b = "filesystem" THEN FilesystemAdapter_saveHistoryEntry(s, entry, t, rnd)
    ELSE InMemoryAdapter_saveHistoryEntry(s, entry, t, rnd)

clearHistory(b, s) ==
    IF b = "filesystem" THEN FilesystemAdapter_clearHistory(s)
    ELSE InMemoryAdapter_clearHistory(s)

clearAllData(b, s, t, rnd) ==
    IF b = "filesystem" THEN FilesystemAdapter_clearAllData(s, t, rnd)
    ELSE InMemoryAdapter_clearAllData(s)

getStats(b, s) ==
    IF b = "filesystem" THEN FilesystemAdapter_getStats(s)
    ELSE InMemoryAdapter_getStats(s)

(***************************************************************************)
(* String helpers: toLowerCase and substring(0, n).                        *)
(***************************************************************************)
RECURSIVE toLowerCase(_)
UpperCase == "ABCDEFGHIJKLMNOPQRSTUVWXYZ"
LowerCase == "abcdefghijklmnopqrstuvwxyz"
LowerOf ==
    [c \in {SubSeq(UpperCase, i, i) : i \in 1..Len(UpperCase)} |->
        LET i == CHOOSE k \in 1..Len(UpperCase) : SubSeq(UpperCase, k, k) = c
        IN  SubSeq(LowerCase, i, i)]
LowerChar(c) == IF c \in DOMAIN LowerOf THEN LowerOf[c] ELSE c
toLowerCase(str) ==
    IF str = "" THEN ""
    ELSE LowerChar(SubSeq(str, 1, 1)) \o toLowerCase(SubSeq(str, 2, Len(str)))

TitlePrefixLen == 50
substring(str, n) == IF Len(str) <= n THEN str ELSE SubSeq(str, 1, n)

\* The titles of the model's records.  Two of the original titles agree on
\* their first 50 characters up to case and differ after them.
Titles == <<"",
            "Spacious Two Bedroom Apartment With Full Marina View And Balcony",
            "SPACIOUS two bedroom apartment with full marina view and terrace">>
EnhancedTitles == <<"", "Stunning Marina Residence">>

\* title.substring(0, 50).toLowerCase(); the table holds the value for the
\* model's titles, computed once.
LowerPrefix(str) == toLowerCase(substring(str, TitlePrefixLen))
LowerPrefixOfTitle == [t \in Range(Titles) \cup Range(EnhancedTitles) |-> LowerPrefix(t)]
titlePrefix(str) ==
    IF str \in DOMAIN LowerPrefixOfTitle THEN LowerPrefixOfTitle[str]
    ELSE LowerPrefix(str)

(***************************************************************************)
(* db.ts: savePropertiesToDb and the other corpus operations, on the       *)
(* adapter that getDatabase() returned.                                    *)
(***************************************************************************)
RawContentMarker == "scraped-from-html"

originalKey(p) == p.original_url \o "::" \o p.original_title
locationKey(p) ==
    p.location \o "::" \o p.price \o "::" \o ToString(p.bedrooms)
        \o "::" \o ToString(p.bathrooms)
enhancedTitleKey(p) ==
    "enhanced::" \o titlePrefix(p.enhanced_title)
originalTitleKey(p) ==
    "original::" \o titlePrefix(p.original_title)
refKey(p) == "ref::" \o p.reference_id
permitKey(p) == "permit::" \o p.permit_number

\* The keys the forEach adds for one existing record.
KeysOfExisting(p) ==
    {originalKey(p), locationKey(p)}
        \cup (IF p.enhanced_title # "" THEN {enhancedTitleKey(p)} ELSE {})
        \cup (IF p.original_title # "" THEN {originalTitleKey(p)} ELSE {})
        \cup (IF p.reference_id # "" THEN {refKey(p)} ELSE {})
        \cup (IF p.permit_number # "" THEN {permitKey(p)} ELSE {})

\* As existingKeys, the loop starting one record too late.
existingKeysSkippingFirst(existingProperties) ==
    UNION {KeysOfExisting(existingProperties[i]) : i \in 2..Len(existingProperties)}

existingKeys(existingProperties) ==
    UNION {KeysOfExisting(existingProperties[i]) : i \in 1..Len(existingProperties)}

\* As IsUniqueNewProperty, the URL scrapes not compared by permit number.
IsUniqueIgnoringPermitOfUrlScrape(p, keys) ==
    IF p.original_url = RawContentMarker
    THEN ~ \/ locationKey(p) \in keys
           \/ (p.enhanced_title # "" /\ enhancedTitleKey(p) \in keys)
           \/ (p.original_title # "" /\ originalTitleKey(p) \in keys)
           \/ (p.reference_id # "" /\ refKey(p) \in keys)
           \/ (p.permit_number # "" /\ permitKey(p) \in keys)
    ELSE IF originalKey(p) \in keys THEN FALSE
    ELSE ~ \/ locationKey(p) \in keys
           \/ (p.reference_id # "" /\ refKey(p) \in keys)

\* As IsUniqueNewProperty, the URL scrapes not compared by location, price,
\* bedrooms and bathrooms.
IsUniqueIgnoringPlaceOfUrlScrape(p, keys) ==
    IF p.original_url = RawContentMarker
    THEN ~ \/ locationKey(p) \in keys
           \/ (p.enhanced_title # "" /\ enhancedTitleKey(p) \in keys)
           \/ (p.original_title # "" /\ originalTitleKey(p) \in keys)
           \/ (p.reference_id # "" /\ refKey(p) \in keys)
           \/ (p.permit_number # "" /\ permitKey(p) \in keys)
    ELSE IF originalKey(p) \in keys THEN FALSE
    ELSE ~ \/ (p.reference_id # "" /\ refKey(p) \in keys)
           \/ (p.permit_number # "" /\ permitKey(p) \in keys)

\* The callback of newProperties.filter: TRUE keeps the candidate.
IsUniqueNewProperty(p, keys) ==
    IF p.original_url = RawContentMarker
    THEN ~ \/ locationKey(p) \in keys
           \/ (p.enhanced_title # "" /\ enhancedTitleKey(p) \in keys)
           \/ (p.original_title # "" /\ originalTitleKey(p) \in keys)
           \/ (p.reference_id # "" /\ refKey(p) \in keys)
           \/ (p.permit_number # "" /\ permitKey(p) \in keys)
    ELSE IF originalKey(p) \in keys THEN FALSE
    ELSE ~ \/ locationKey(p) \in keys
           \/ (p.reference_id # "" /\ refKey(p) \in keys)
           \/ (p.permit_number # "" /\ permitKey(p) \in keys)

RECURSIVE uniqueNewProperties(_, _)
uniqueNewProperties(newProperties, keys) ==
    IF newProperties = <<>> THEN <<>>
    ELSE LET rest == uniqueNewProperties(Tail(newProperties), keys)
         IN  IF IsUniqueNewProperty(Head(newProperties), keys)
             THEN <<Head(newProperties)>> \o rest
             ELSE rest

AllDuplicates == "All properties already exist in the database."

\* As savePropertiesToDb, without the throw for a batch of duplicates.
savePropertiesToDbSilently(b, s, newProperties) ==
    LET existingProperties == getAllProperties(b, s).value
        unique == uniqueNewProperties(newProperties, existingKeys(existingProperties))
    IN  IF Len(unique) = 0
        THEN Returned(s, Void)
        ELSE saveProperties(b, s, unique \o existingProperties)

\* As savePropertiesToDb, the new records put after the existing ones.
savePropertiesToDbAppending(b, s, newProperties) ==
    LET existingProperties == getAllProperties(b, s).value
        unique == uniqueNewProperties(newProperties, existingKeys(existingProperties))
    IN  IF Len(newProperties) > 0 /\ Len(unique) = 0
        THEN Thrown(s, AllDuplicates)
        ELSE IF Len(unique) = 0
        THEN Returned(s, Void)
        ELSE saveProperties(b, s, existingProperties \o unique)

savePropertiesToDb(b, s, newProperties) ==
    LET existingProperties == getAllProperties(b, s).value
        unique == uniqueNewProperties(newProperties, existingKeys(existingProperties))
    IN  IF Len(newProperties) > 0 /\ Len(unique) = 0
        THEN Thrown(s, AllDuplicates)
        ELSE IF Len(unique) = 0
        THEN Returned(s, Void)
        ELSE saveProperties(b, s, unique \o existingProperties)

updatePropertyInDb(b, s, updatedProperty) == updateProperty(b, s, updatedProperty)

deletePropertyFromDb(b, s, propertyId) == deleteProperty(b, s, propertyId)

clearDb(b, s) == saveProperties(b, s, <<>>)

\* actions.ts: saveProperty hands a batch of one to savePropertiesToDb.
saveProperty(b, s, property) == savePropertiesToDb(b, s, <<property>>)

(***************************************************************************)
(* Adapter calls made on both backends in lockstep, from the same initial  *)
(* corpus and history: the same call with the same arguments goes to each. *)
(***************************************************************************)
InitDb == [b \in Backends |-> [properties |-> <<>>, history |-> <<>>]]

Outcome(r) == [ok |-> r.ok, value |-> r.value]

\* The call's effect on every backend, r[b] being its result on backend b.
Called(op, arg, r) ==
    /\ db' = [b \in Backends |-> r[b].state]
    /\ last' = [op |-> op, arg |-> arg, res |-> [b \in Backends |-> Outcome(r[b])]]

WithinBounds(r) ==
    \A b \in Backends :
        /\ Len(r[b].state.properties) <= MaxCorpus
        /\ Len(r[b].state.history) <= MaxHistory

AdapterIds == {"prop-1-0", "prop-1-1"}
AdapterRecords ==
    {Property(id, "https://a.example/1", "Sea view flat", "Bright sea view flat",
              "Marina", price, 1, 1, "", "", <<>>) :
        id \in AdapterIds, price \in {"100", "200"}}
HistoryInputs ==
    {[type |-> "URL", details |-> "https://a.example/1", propertyCount |-> 1],
     [type |-> "HTML", details |-> "Pasted HTML content", propertyCount |-> 2]}

GetAllProperties ==
    /\ Called("getAllProperties", Void,
              [b \in Backends |-> getAllProperties(b, db[b])])
    /\ UNCHANGED <<now, results, downloads, invocation, calls>>

SaveProperties ==
    \E properties \in SeqsUpTo(AdapterRecords, MaxCorpus) :
        /\ Called("saveProperties", properties,
                  [b \in Backends |-> saveProperties(b, db[b], properties)])
        /\ UNCHANGED <<now, results, downloads, invocation, calls>>

UpdateProperty ==
    \E property \in AdapterRecords :
        LET r == [b \in Backends |-> updateProperty(b, db[b], property)]
        IN  /\ WithinBounds(r)
            /\ Called("updateProperty", property, r)
            /\ UNCHANGED <<now, results, downloads, invocation, calls>>

DeleteProperty ==
    \E propertyId \in AdapterIds :
        /\ Called("deleteProperty", propertyId,
                  [b \in Backends |-> deleteProperty(b, db[b], propertyId)])
        /\ UNCHANGED <<now, results, downloads, invocation, calls>>

BulkDeleteProperties ==
    \E propertyIds \in SeqsUpTo(AdapterIds, MaxIds) :
        /\ Called("bulkDeleteProperties", propertyIds,
                  [b \in Backends |-> bulkDeleteProperties(b, db[b], propertyIds)])
        /\ UNCHANGED <<now, results, downloads, invocation, calls>>

GetAllHistory ==
    /\ Called("getAllHistory", Void,
              [b \in Backends |-> getAllHistory(b, db[b])])
    /\ UNCHANGED <<now, results, downloads, invocation, calls>>

SaveHistoryEntry ==
    \E entry \in HistoryInputs, rnd \in RandomSuffixes :
        LET r == [b \in Backends |-> saveHistoryEntry(b, db[b], entry, now, rnd)]
        IN  /\ WithinBounds(r)
            /\ Called("saveHistoryEntry", entry, r)
            /\ UNCHANGED <<now, results, downloads, invocation, calls>>

ClearHistory ==
    /\ Called("clearHistory", Void,
              [b \in Backends |-> clearHistory(b, db[b])])
    /\ UNCHANGED <<now, results, downloads, invocation, calls>>

ClearAllData ==
    \E rnd \in RandomSuffixes :
        LET r == [b \in Backends |-> clearAllData(b, db[b], now, rnd)]
        IN  /\ WithinBounds(r)
            /\ Called("clearAllData", Void, r)
            /\ UNCHANGED <<now, results, downloads, invocation, calls>>

GetStats ==
    /\ Called("getStats", Void, [b \in Backends |-> getStats(b, db[b])])
    /\ UNCHANGED <<now, results, downloads, invocation, calls>>

Clients == {"tab1", "tab2"}
\* What each client holds of its last scrape: nothing yet.
NoResults == [c \in Clients |-> <<>>]

\* No download job is running.
NoDownloads == [job |-> "idle", pc |-> "idle", total |-> 0, i |-> 0, status |-> <<>>,
                downloaded |-> 0, failed |-> 0, written |-> FALSE]

\* No corpus call is in progress and properties.json is whole.
NoCalls == [file |-> "whole",
            call |-> [c \in Clients |->
                        [pc |-> "idle", newProperties |-> <<>>,
                         existingProperties |-> [b \in Backends |-> <<>>],
                         unique |-> [b \in Backends |-> <<>>],
                         threw |-> [b \in Backends |-> FALSE]]]]

\* No scrape has been called.
NoInvocation == [pc |-> "idle", op |-> "none", client |-> "none", urlList |-> <<>>, k |-> 0,
                 allResults |-> <<>>, trace |-> <<>>,
                 history |-> [b \in Backends |-> <<>>]]

NoCall == [op |-> "none", arg |-> Void,
           res |-> [b \in Backends |-> [ok |-> TRUE, value |-> Void]]]

Init ==
    /\ db = InitDb
    /\ last = NoCall
    /\ now = 0
    /\ results = NoResults
    /\ downloads = NoDownloads
    /\ invocation = NoInvocation
    /\ calls = NoCalls

Next ==
    \/ GetAllProperties
    \/ SaveProperties
    \/ UpdateProperty
    \/ DeleteProperty
    \/ BulkDeleteProperties
    \/ GetAllHistory
    \/ SaveHistoryEntry
    \/ ClearHistory
    \/ ClearAllData
    \/ GetStats

Spec == Init /\ [][Next]_vars

(***************************************************************************)
(* Candidate records as the ingestion hands them to saveProperty: every    *)
(* combination of the fields the fingerprints read, each with its own id.  *)
(***************************************************************************)
Urls == <<RawContentMarker, "https://a.example/1">>
Places == <<[location |-> "Marina", price |-> "AED 100,000", bedrooms |-> 1, bathrooms |-> 1],
            [location |-> "Marina", price |-> "AED 100,000", bedrooms |-> 1, bathrooms |-> 2]>>
ReferenceIds == <<"", "RERA-123">>
PermitNumbers == <<"", "P-77">>

CandidateId(u, t, e, l, r, m) ==
    "prop-" \o ToString(100000 * u + 10000 * t + 1000 * e + 100 * l + 10 * r + m) \o "-0"

Candidate(u, t, e, l, r, m) ==
    Property(CandidateId(u, t, e, l, r, m), Urls[u], Titles[t], EnhancedTitles[e],
             Places[l].location, Places[l].price, Places[l].bedrooms,
             Places[l].bathrooms, ReferenceIds[r], PermitNumbers[m], <<>>)

Candidates ==
    {Candidate(u, t, e, l, r, m) :
        u \in DOMAIN Urls, t \in DOMAIN Titles, e \in DOMAIN EnhancedTitles,
        l \in DOMAIN Places, r \in DOMAIN ReferenceIds, m \in DOMAIN PermitNumbers}

\* The candidates the corpus operations are driven with: a raw-content scrape
\* and a URL scrape, each of a place of its own and under either title.
DedupCandidates ==
    {Candidate(u, t, 1, u, 1, 1) : u \in DOMAIN Urls, t \in {2, 3}}

(***************************************************************************)
(* SpecFingerprint: savePropertiesToDb applied once to a candidate, for    *)
(* every existing corpus of up to MaxExisting records.                     *)
(***************************************************************************)
InitFingerprint ==
    /\ \E existing \in SeqsUpTo(Candidates, MaxExisting) :
          db = [b \in Backends |-> [properties |-> existing, history |-> <<>>]]
    /\ last = NoCall
    /\ now = 0
    /\ results = NoResults
    /\ downloads = NoDownloads
    /\ invocation = NoInvocation
    /\ calls = NoCalls

FilterCandidate ==
    \E c \in Candidates :
        /\ last.op = "none"
        /\ Called("savePropertiesToDb", <<c>>,
                  [b \in Backends |-> savePropertiesToDb(b, db[b], <<c>>)])
        /\ UNCHANGED <<now, results, downloads, invocation, calls>>

NextFingerprint == FilterCandidate

SpecFingerprint == InitFingerprint /\ [][NextFingerprint]_vars

(***************************************************************************)
(* SpecDedup: the corpus operations of db.ts and actions.ts, in any order. *)
(***************************************************************************)
DedupWithinBounds(r) ==
    \A b \in Backends : Len(r[b].state.properties) <= MaxDedupCorpus

SavePropertiesToDb ==
    \E newProperties \in SeqsUpTo(DedupCandidates, MaxBatch) :
        LET r == [b \in Backends |-> savePropertiesToDb(b, db[b], newProperties)]
        IN  /\ DedupWithinBounds(r)
            /\ Called("savePropertiesToDb", newProperties, r)
            /\ UNCHANGED <<now, results, downloads, invocation, calls>>

SaveProperty ==
    \E property \in DedupCandidates :
        LET r == [b \in Backends |-> saveProperty(b, db[b], property)]
        IN  /\ DedupWithinBounds(r)
            /\ Called("saveProperty", <<property>>, r)
            /\ UNCHANGED <<now, results, downloads, invocation, calls>>

DeletePropertyFromDb ==
    \E i \in 1..MaxDedupCorpus :
        /\ \A b \in Backends : i <= Len(db[b].properties)
        /\ LET propertyId == db["filesystem"].properties[i].id
           IN  Called("deletePropertyFromDb", propertyId,
                      [b \in Backends |-> deletePropertyFromDb(b, db[b], propertyId)])
        /\ UNCHANGED <<now, results, downloads, invocation, calls>>

ClearDb ==
    /\ Called("clearDb", Void, [b \in Backends |-> clearDb(b, db[b])])
    /\ UNCHANGED <<now, results, downloads, invocation, calls>>

NextDedup ==
    \/ SavePropertiesToDb
    \/ SaveProperty
    \/ DeletePropertyFromDb
    \/ ClearDb

SpecDedup == Init /\ [][NextDedup]_vars

(***************************************************************************)
(* actions.ts: the ingestion.  A run is one extracted record with what the *)
(* network and the enhancement did for it: item is the record as the       *)
(* extraction returned it, fetched[j] tells whether the download of its    *)
(* j-th image URL succeeded, enhanced what the enhancement did: "enhanced" *)
(* when it produced a title of its own, "echoed" when the model gave no    *)
(* output and the flow returned the input, "failed" when the call threw.   *)
(***************************************************************************)
startsWithHttp(url) == Len(url) >= 4 /\ SubSeq(url, 1, 4) = "http"

\* `prop-${Date.now()}-${index}`, index counted from 0.
propertyId(t, index) == "prop-" \o ToString(t) \o "-" \o ToString(index)

\* downloadImage of actions.ts: the local reference, or null.
downloadImage(url, id, imageIndex, fetched) ==
    IF url = "" \/ ~startsWithHttp(url) THEN [ok |-> FALSE, ref |-> ""]
    ELSE IF fetched
    THEN [ok |-> TRUE,
          ref |-> "/uploads/properties/" \o id \o "/uuid" \o ToString(imageIndex) \o ".jpeg"]
    ELSE [ok |-> FALSE, ref |-> ""]

\* downloadAndSaveImage of the earlier actions module: the file sits beside
\* the others, named after the record.
downloadAndSaveImage(imageUrl, id, imageIndex, fetched) ==
    IF fetched
    THEN [ok |-> TRUE,
          ref |-> "/uploads/properties/" \o id \o "-uuid" \o ToString(imageIndex) \o ".jpg"]
    ELSE [ok |-> FALSE, ref |-> ""]

Enhancements == {"enhanced", "echoed", "failed"}

\* What the flow resolves to when it does not throw.
enhancePropertyContent(title, enhanced) ==
    [enhancedTitle |-> IF enhanced = "enhanced" THEN EnhancedTitles[2] ELSE title]

EnhancementFailed == "Enhancement failed."
\* Promise.all(processingPromises) rejects: the enhancement of a record threw.
rejects(runs) == \E i \in 1..Len(runs) : runs[i].enhanced = "failed"

\* The same in the earlier module, which enhances the records with a title.
rejectsEarlier(runs) ==
    \E i \in 1..Len(runs) : runs[i].item.title # "" /\ runs[i].enhanced = "failed"

RECURSIVE NonNull(_)
\* .filter(url => url !== null)
NonNull(settled) ==
    IF settled = <<>> THEN <<>>
    ELSE IF Head(settled).ok THEN <<Head(settled).ref>> \o NonNull(Tail(settled))
    ELSE NonNull(Tail(settled))

RECURSIVE Truthy(_)
\* .filter(url => !!url)
Truthy(urls) ==
    IF urls = <<>> THEN <<>>
    ELSE IF Head(urls) # "" THEN <<Head(urls)>> \o Truthy(Tail(urls))
    ELSE Truthy(Tail(urls))

\* The records processScrapedData returns: image_urls holds the downloads
\* that succeeded and nothing else.
processScrapedData(runs, originalUrl, t) ==
    [i \in 1..Len(runs) |->
        LET p == runs[i].item
            id == propertyId(t, i - 1)
            imageUrls == Truthy(p.image_urls)
            downloadedUrls ==
                NonNull([j \in 1..Len(imageUrls) |->
                            downloadImage(imageUrls[j], id, j - 1, runs[i].fetched[j])])
            enhancedContent == enhancePropertyContent(p.title, runs[i].enhanced)
        IN  Property(id, originalUrl, p.title, enhancedContent.enhancedTitle,
                     p.location, p.price, p.bedrooms, p.bathrooms,
                     p.reference_id, p.permit_number, downloadedUrls)]

\* The URL up to its path: scheme and host.
origin(url) ==
    LET slashes == {i \in 9..Len(url) : SubSeq(url, i, i) = "/"}
    IN  IF slashes = {} THEN url
        ELSE SubSeq(url, 1, (CHOOSE i \in slashes : \A k \in slashes : i <= k) - 1)

\* new URL(imgUrl, originalUrl).href, or null when neither is absolute.
absoluteUrl(imgUrl, originalUrl) ==
    IF startsWithHttp(imgUrl) THEN [ok |-> TRUE, ref |-> imgUrl]
    ELSE IF startsWithHttp(originalUrl) THEN [ok |-> TRUE, ref |-> origin(originalUrl) \o imgUrl]
    ELSE [ok |-> FALSE, ref |-> ""]

\* The records processAndSaveHistory of the earlier actions module returns:
\* a failed download leaves the source URL, and an empty list gets the
\* placeholder.
processAndSaveHistory(runs, originalUrl, t) ==
    [i \in 1..Len(runs) |->
        LET p == runs[i].item
            id == propertyId(t, i - 1)
            absoluteImageUrls ==
                NonNull([j \in 1..Len(p.image_urls) |-> absoluteUrl(p.image_urls[j], originalUrl)])
            downloadedImageUrls ==
                [j \in 1..Len(absoluteImageUrls) |->
                    downloadAndSaveImage(absoluteImageUrls[j], id, j - 1, runs[i].fetched[j])]
            mapped ==
                [j \in 1..Len(absoluteImageUrls) |->
                    IF downloadedImageUrls[j].ok THEN downloadedImageUrls[j].ref
                    ELSE absoluteImageUrls[j]]
            finalImageUrls == IF Len(mapped) = 0 THEN <<PlaceholderImage>> ELSE mapped
            enhancedContent ==
                IF p.title # "" THEN enhancePropertyContent(p.title, runs[i].enhanced)
                ELSE [enhancedTitle |-> p.title]
        IN  Property(id, originalUrl, p.title, enhancedContent.enhancedTitle,
                     p.location, p.price, p.bedrooms, p.bathrooms,
                     p.reference_id, p.permit_number, finalImageUrls)]

\* processScrapedData, with its saveHistoryEntry, on backend b.
processed(b, s, runs, originalUrl, historyEntry, t, rnd) ==
    LET finalProperties == processScrapedData(runs, originalUrl, t)
        saved == saveHistoryEntry(b, s,
                    [type |-> historyEntry.type, details |-> historyEntry.details,
                     propertyCount |-> Len(finalProperties)], t, rnd)
    IN  IF rejects(runs) THEN Thrown(s, EnhancementFailed)
        ELSE Returned(saved.state, finalProperties)

\* The same for processAndSaveHistory.
processedEarlier(b, s, runs, originalUrl, historyEntry, t, rnd) ==
    LET finalProperties == processAndSaveHistory(runs, originalUrl, t)
        saved == saveHistoryEntry(b, s,
                    [type |-> historyEntry.type, details |-> historyEntry.details,
                     propertyCount |-> Len(finalProperties)], t, rnd)
    IN  IF rejectsEarlier(runs) THEN Thrown(s, EnhancementFailed)
        ELSE Returned(saved.state, finalProperties)

includesHttp(url) == \E i \in 1..Len(url) : i + 3 <= Len(url) /\ SubSeq(url, i, i + 3) = "http"

\* scrapeUrl: page is [fetched, runs], fetched telling whether getHtml got
\* the page.
scrapeUrl(b, s, url, page, t, rnd) ==
    IF url = "" \/ ~includesHttp(url) THEN Thrown(s, "Invalid URL provided.")
    ELSE IF ~page.fetched THEN Thrown(s, "Could not retrieve content")
    ELSE processed(b, s, page.runs, url, [type |-> "URL", details |-> url], t, rnd)

MinHtmlLength == 100
\* scrapeHtml: htmlLength is the length of the pasted content.
scrapeHtml(b, s, htmlLength, runs, t, rnd) ==
    IF htmlLength < MinHtmlLength THEN Thrown(s, "Invalid HTML provided.")
    ELSE processed(b, s, runs, RawContentMarker,
                   [type |-> "HTML", details |-> "Pasted HTML content"], t, rnd)

RECURSIVE bulkLoop(_, _, _, _)
\* The for loop of scrapeBulk over cycles, a cycle being [url, page, t, rnd]
\* with t the time its processing starts; a cycle that fails is skipped.
bulkLoop(b, s, cycles, allResults) ==
    IF cycles = <<>> THEN Returned(s, allResults)
    ELSE LET c == Head(cycles)
         IN  IF ~c.page.fetched THEN bulkLoop(b, s, Tail(cycles), allResults)
             ELSE LET r == processed(b, s, c.page.runs, c.url,
                              [type |-> "BULK",
                               details |-> "Bulk operation included: " \o c.url],
                              c.t, c.rnd)
                  IN  IF r.ok THEN bulkLoop(b, r.state, Tail(cycles), allResults \o r.value)
                      ELSE bulkLoop(b, s, Tail(cycles), allResults)

scrapeBulk(b, s, cycles) ==
    IF cycles = <<>> THEN Thrown(s, "No valid URLs found in bulk input.")
    ELSE bulkLoop(b, s, cycles, <<>>)

\* scrapeUrl and scrapeHtml of the earlier actions module.
scrapeUrlEarlier(b, s, url, page, t, rnd) ==
    IF url = "" \/ ~includesHttp(url) THEN Thrown(s, "Invalid URL provided.")
    ELSE IF ~page.fetched THEN Thrown(s, "Could not retrieve content")
    ELSE processedEarlier(b, s, page.runs, url, [type |-> "URL", details |-> url], t, rnd)

scrapeHtmlEarlier(b, s, htmlLength, runs, t, rnd) ==
    IF htmlLength < MinHtmlLength THEN Thrown(s, "Invalid HTML provided.")
    ELSE processedEarlier(b, s, runs, RawContentMarker,
                          [type |-> "HTML", details |-> "Pasted HTML content"], t, rnd)

(***************************************************************************)
(* Pages as the extraction returns them.                                   *)
(***************************************************************************)
MaxPage == 2

AbsoluteImage == "https://img.example/a.jpg"
RelativeImage == "/img/b.jpg"
ImageLists == {<<>>, <<AbsoluteImage>>, <<AbsoluteImage, RelativeImage>>}

Item(t, l, imgs) ==
    [title |-> Titles[t], location |-> Places[l].location, price |-> Places[l].price,
     bedrooms |-> Places[l].bedrooms, bathrooms |-> Places[l].bathrooms,
     reference_id |-> "", permit_number |-> "", image_urls |-> imgs]

RunsOf(items, enhancements) ==
    UNION {{[item |-> it, fetched |-> f, enhanced |-> e] :
                f \in [1..Len(it.image_urls) -> BOOLEAN], e \in enhancements} : it \in items}

RichPages == SeqsUpTo(RunsOf({Item(2, 1, imgs) : imgs \in ImageLists}, Enhancements), MaxPage)

HtmlLengths == {0, MinHtmlLength}
ScrapedUrls == {"", "https://a.example/1", "https://b.example/2"}

\* A scrape ends: the call is recorded and the client holds what it returned
\* (nothing when it failed).
Scraped(op, client, arg, r) ==
    /\ Called(op, arg, r)
    /\ results' = [results EXCEPT ![client] =
                       IF r["filesystem"].ok THEN r["filesystem"].value ELSE <<>>]

(***************************************************************************)
(* SpecProcess: one scrape of a page, by either module, for every page of  *)
(* up to MaxPage records and every outcome of its downloads.               *)
(***************************************************************************)
ScrapeUrlOnce ==
    /\ last.op = "none"
    /\ \E client \in Clients, url \in ScrapedUrls, fetched \in BOOLEAN,
          runs \in RichPages, rnd \in RandomSuffixes :
            LET page == [fetched |-> fetched, runs |-> runs]
            IN  Scraped("scrapeUrl", client, [url |-> url, runs |-> runs],
                        [b \in Backends |-> scrapeUrl(b, db[b], url, page, now, rnd)])
    /\ UNCHANGED <<now, downloads, invocation, calls>>

ScrapeHtmlOnce ==
    /\ last.op = "none"
    /\ \E client \in Clients, htmlLength \in HtmlLengths,
          runs \in RichPages, rnd \in RandomSuffixes :
            Scraped("scrapeHtml", client, [url |-> RawContentMarker, runs |-> runs],
                    [b \in Backends |-> scrapeHtml(b, db[b], htmlLength, runs, now, rnd)])
    /\ UNCHANGED <<now, downloads, invocation, calls>>

ScrapeUrlEarlierOnce ==
    /\ last.op = "none"
    /\ \E client \in Clients, url \in ScrapedUrls, fetched \in BOOLEAN,
          runs \in RichPages, rnd \in RandomSuffixes :
            LET page == [fetched |-> fetched, runs |-> runs]
            IN  Scraped("scrapeUrlEarlier", client, [url |-> url, runs |-> runs],
                        [b \in Backends |-> scrapeUrlEarlier(b, db[b], url, page, now, rnd)])
    /\ UNCHANGED <<now, downloads, invocation, calls>>

ScrapeHtmlEarlierOnce ==
    /\ last.op = "none"
    /\ \E client \in Clients, htmlLength \in HtmlLengths,
          runs \in RichPages, rnd \in RandomSuffixes :
            Scraped("scrapeHtmlEarlier", client, [url |-> RawContentMarker, runs |-> runs],
                    [b \in Backends |-> scrapeHtmlEarlier(b, db[b], htmlLength, runs, now, rnd)])
    /\ UNCHANGED <<now, downloads, invocation, calls>>

NextProcess ==
    \/ ScrapeUrlOnce
    \/ ScrapeHtmlOnce
    \/ ScrapeUrlEarlierOnce
    \/ ScrapeHtmlEarlierOnce

SpecProcess == Init /\ [][NextProcess]_vars

(***************************************************************************)
(* SpecIngest: clients scrape, save what a scrape returned, edit and       *)
(* delete stored records, while the clock advances on its own.  Two        *)
(* scrapes may start within the same millisecond.                          *)
(***************************************************************************)
MaxClock == 1
MaxIngestHistory == 1
MaxBulk == 2

IngestSuffixes == {"k3x9"}
IngestUrls == {"", "https://a.example/1"}
EditedPrices == {"AED 90,000"}

\* What the extraction finds at each source: one listing, at the URL of one
\* place and in the pasted content of another.
PlaceAt(url) == IF url = RawContentMarker THEN 2 ELSE 1
PageAt(url) == <<[item |-> Item(2, PlaceAt(url), <<>>), fetched |-> <<>>, enhanced |-> "enhanced"]>>

IngestWithinBounds(r) ==
    \A b \in Backends :
        /\ Len(r[b].state.properties) <= MaxDedupCorpus
        /\ Len(r[b].state.history) <= MaxIngestHistory

Tick ==
    /\ now < MaxClock
    /\ now' = now + 1
    /\ UNCHANGED <<db, last, results, downloads, invocation, calls>>

ScrapeUrl ==
    /\ \E client \in Clients, url \in IngestUrls, fetched \in BOOLEAN,
          rnd \in IngestSuffixes :
            LET runs == PageAt(url)
                page == [fetched |-> fetched, runs |-> runs]
                r == [b \in Backends |-> scrapeUrl(b, db[b], url, page, now, rnd)]
            IN  /\ IngestWithinBounds(r)
                /\ Scraped("scrapeUrl", client, [url |-> url, runs |-> runs], r)
    /\ UNCHANGED <<now, downloads, invocation, calls>>

ScrapeHtml ==
    /\ \E client \in Clients, htmlLength \in HtmlLengths, rnd \in IngestSuffixes :
            LET runs == PageAt(RawContentMarker)
                r == [b \in Backends |-> scrapeHtml(b, db[b], htmlLength, runs, now, rnd)]
            IN  /\ IngestWithinBounds(r)
                /\ Scraped("scrapeHtml", client, [url |-> RawContentMarker, runs |-> runs], r)
    /\ UNCHANGED <<now, downloads, invocation, calls>>

\* The cycles of one bulk call: the first starts now, each one after it no
\* earlier than the one before.
BulkCycles ==
    {cycles \in SeqsUpTo(UNION {[url : {url}, page : [fetched : BOOLEAN, runs : {PageAt(url)}],
                                 t : now..MaxClock, rnd : IngestSuffixes] :
                                    url \in IngestUrls \ {""}}, MaxBulk) :
        /\ cycles # <<>> => cycles[1].t = now
        /\ \A i \in 1..(Len(cycles) - 1) : cycles[i].t <= cycles[i + 1].t}

ScrapeBulk ==
    \E client \in Clients, cycles \in BulkCycles :
        LET r == [b \in Backends |-> scrapeBulk(b, db[b], cycles)]
        IN  /\ IngestWithinBounds(r)
            /\ Scraped("scrapeBulk", client, cycles, r)
            /\ now' = IF cycles = <<>> THEN now ELSE cycles[Len(cycles)].t
            /\ UNCHANGED <<downloads, invocation, calls>>

\* The client saves one of the records its scrape returned.
SaveResult ==
    \E client \in Clients :
        \E i \in 1..Len(results[client]) :
            LET property == results[client][i]
                r == [b \in Backends |-> saveProperty(b, db[b], property)]
            IN  /\ IngestWithinBounds(r)
                /\ Called("saveProperty", <<property>>, r)
                /\ UNCHANGED <<now, results, downloads, invocation, calls>>

\* The database page edits a stored record and sends it whole.
EditProperty ==
    \E i \in 1..MaxDedupCorpus, price \in EditedPrices :
        /\ \A b \in Backends : i <= Len(db[b].properties)
        /\ LET property == [db["filesystem"].properties[i] EXCEPT !.price = price]
           IN  Called("updatePropertyInDb", property,
                      [b \in Backends |-> updatePropertyInDb(b, db[b], property)])
        /\ UNCHANGED <<now, results, downloads, invocation, calls>>

NextIngest ==
    \/ Tick
    \/ ScrapeUrl
    \/ ScrapeHtml
    \/ ScrapeBulk
    \/ SaveResult
    \/ EditProperty
    \/ DeletePropertyFromDb
    \/ ClearHistory

SpecIngest == Init /\ [][NextIngest]_vars

(***************************************************************************)
(* SpecHistory: db.ts saveHistoryEntry called again and again, each call   *)
(* in a later millisecond, and clearHistory.                               *)
(***************************************************************************)
MaxAppends == 51

AppendHistoryEntry ==
    /\ now < MaxAppends
    /\ \E rnd \in IngestSuffixes :
        LET entry == [type |-> "URL", details |-> "https://a.example/1", propertyCount |-> 1]
        IN  Called("saveHistoryEntry", entry,
                   [b \in Backends |-> saveHistoryEntry(b, db[b], entry, now, rnd)])
    /\ now' = now + 1
    /\ UNCHANGED <<results, downloads, invocation, calls>>

NextHistory ==
    \/ AppendHistoryEntry
    \/ ClearHistory

SpecHistory == Init /\ [][NextHistory]_vars

(***************************************************************************)
(* SpecDownload: the image downloads one at a time.  A download is in      *)
(* flight from the moment its request is issued until it settles.  The     *)
(* repair script works on a queue of total downloads (what its scan of the *)
(* corpus and of the upload directory leaves to fetch); the ingestion      *)
(* issues the requests of a page.                                          *)
(***************************************************************************)
MAX_CONCURRENT == 5
MaxQueue == 6
MaxImagesPerRecord == 3

Min(a, b) == IF a < b THEN a ELSE b

RECURSIVE Sum(_)
Sum(counts) == IF counts = <<>> THEN 0 ELSE Head(counts) + Sum(Tail(counts))

\* slice(i, i + MAX_CONCURRENT) of the queue, as positions counted from 1.
batch(i, total) == (i + 1)..Min(i + MAX_CONCURRENT, total)

InFlight == {k \in DOMAIN downloads.status : downloads.status[k] = "fetching"}

\* downloadMissingImages up to its loop: with nothing to download it returns
\* without writing.
StartDownloadMissingImages ==
    /\ downloads.job \in {"idle", "finished"}
    /\ \E total \in 0..MaxQueue :
        downloads' =
            IF total = 0
            THEN [NoDownloads EXCEPT !.job = "finished"]
            ELSE [NoDownloads EXCEPT !.job = "downloadMissingImages", !.pc = "loop",
                                     !.total = total,
                                     !.status = [k \in 1..total |-> "queued"]]
    /\ UNCHANGED <<db, last, now, results, invocation, calls>>

\* One turn of the loop: every item of the batch starts with its random sleep.
LaunchBatch ==
    /\ downloads.job = "downloadMissingImages"
    /\ downloads.pc = "loop"
    /\ downloads.i < downloads.total
    /\ downloads' = [downloads EXCEPT
            !.pc = "batch",
            !.status = [k \in 1..downloads.total |->
                            IF k \in batch(downloads.i, downloads.total)
                            THEN "sleeping" ELSE downloads.status[k]]]
    /\ UNCHANGED <<db, last, now, results, invocation, calls>>

\* An item's sleep is over: its request is issued.
IssueRequest ==
    /\ \E k \in DOMAIN downloads.status :
        /\ downloads.status[k] = "sleeping"
        /\ downloads' = [downloads EXCEPT !.status[k] = "fetching"]
    /\ UNCHANGED <<db, last, now, results, invocation, calls>>

\* SettleRequest as it would be if a failed download were issued again.
SettleRequestRetrying ==
    /\ \E k \in DOMAIN downloads.status, success \in BOOLEAN :
        /\ downloads.status[k] = "fetching"
        /\ downloads' = [downloads EXCEPT !.status[k] = IF success THEN "ok" ELSE "sleeping"]
    /\ UNCHANGED <<db, last, now, results, invocation, calls>>

\* A request settles: downloadImage resolves true or false.
SettleRequest ==
    /\ \E k \in DOMAIN downloads.status, success \in BOOLEAN :
        /\ downloads.status[k] = "fetching"
        /\ downloads' = [downloads EXCEPT !.status[k] = IF success THEN "ok" ELSE "failed"]
    /\ UNCHANGED <<db, last, now, results, invocation, calls>>

\* The response of a request of the script came with status 200 and its
\* connection closes before the body is complete: the response is destroyed,
\* the pipe does not end the file, no 'finish' and no 'error' of the file or
\* of the request follows and the timeout is cleared with the socket, so
\* nothing resolves the promise.
AbortResponse ==
    /\ downloads.job = "downloadMissingImages"
    /\ \E k \in DOMAIN downloads.status :
        /\ downloads.status[k] = "fetching"
        /\ downloads' = [downloads EXCEPT !.status[k] = "aborted"]
    /\ UNCHANGED <<db, last, now, results, invocation, calls>>

\* JoinBatch as it would be if the join resolved with the first download of
\* the batch to settle.
JoinBatchOnFirstSettled ==
    /\ downloads.job = "downloadMissingImages"
    /\ downloads.pc = "batch"
    /\ LET items == batch(downloads.i, downloads.total)
       IN  /\ \E k \in items : downloads.status[k] \in {"ok", "failed"}
           /\ downloads' = [downloads EXCEPT
                !.downloaded = @ + Cardinality({k \in items : downloads.status[k] = "ok"}),
                !.failed = @ + Cardinality({k \in items : downloads.status[k] = "failed"}),
                !.status = [k \in 1..downloads.total |->
                                IF k \in items THEN "counted" ELSE downloads.status[k]],
                !.i = @ + MAX_CONCURRENT,
                !.pc = IF downloads.i + MAX_CONCURRENT < downloads.total
                       THEN "pause" ELSE "loop"]
    /\ UNCHANGED <<db, last, now, results, invocation, calls>>

\* Promise.all of the batch resolves: the counters, then the sleep between
\* batches when more are left.
JoinBatch ==
    /\ downloads.job = "downloadMissingImages"
    /\ downloads.pc = "batch"
    /\ LET items == batch(downloads.i, downloads.total)
       IN  /\ \A k \in items : downloads.status[k] \in {"ok", "failed"}
           /\ downloads' = [downloads EXCEPT
                !.downloaded = @ + Cardinality({k \in items : downloads.status[k] = "ok"}),
                !.failed = @ + Cardinality({k \in items : downloads.status[k] = "failed"}),
                !.status = [k \in 1..downloads.total |->
                                IF k \in items THEN "counted" ELSE downloads.status[k]],
                !.i = @ + MAX_CONCURRENT,
                !.pc = IF downloads.i + MAX_CONCURRENT < downloads.total
                       THEN "pause" ELSE "loop"]
    /\ UNCHANGED <<db, last, now, results, invocation, calls>>

EndPause ==
    /\ downloads.job = "downloadMissingImages"
    /\ downloads.pc = "pause"
    /\ downloads' = [downloads EXCEPT !.pc = "loop"]
    /\ UNCHANGED <<db, last, now, results, invocation, calls>>

\* The loop is over: properties.json is rewritten.
WriteProperties ==
    /\ downloads.job = "downloadMissingImages"
    /\ downloads.pc = "loop"
    /\ downloads.i >= downloads.total
    /\ downloads' = [downloads EXCEPT !.job = "finished", !.pc = "idle", !.written = TRUE]
    /\ UNCHANGED <<db, last, now, results, invocation, calls>>

\* The image URLs of each record of a page.
PageImageCounts == SeqsUpTo(0..MaxImagesPerRecord, MaxPage)

\* processScrapedData up to its first suspension: the callback of every
\* record runs to its Promise.all, and every downloadImage in it to its
\* fetch, so the requests of the whole page are issued in the same turn.
StartPageDownloads ==
    /\ downloads.job \in {"idle", "finished"}
    /\ \E counts \in PageImageCounts :
        downloads' = [NoDownloads EXCEPT
            !.job = "processScrapedData", !.pc = "await", !.total = Sum(counts),
            !.status = [k \in 1..Sum(counts) |-> "fetching"]]
    /\ UNCHANGED <<db, last, now, results, invocation, calls>>

\* Every download of the page has settled: the records are assembled.
JoinPageDownloads ==
    /\ downloads.job = "processScrapedData"
    /\ \A k \in DOMAIN downloads.status : downloads.status[k] \in {"ok", "failed"}
    /\ downloads' = [downloads EXCEPT !.job = "finished", !.pc = "idle"]
    /\ UNCHANGED <<db, last, now, results, invocation, calls>>

NextDownload ==
    \/ StartDownloadMissingImages
    \/ LaunchBatch
    \/ IssueRequest
    \/ SettleRequest
    \/ AbortResponse
    \/ JoinBatch
    \/ EndPause
    \/ WriteProperties
    \/ StartPageDownloads
    \/ JoinPageDownloads

SpecDownload == Init /\ [][NextDownload]_vars

\* The script under its scheduler: a timer that was set fires, a request
\* that can settle through one of its handlers or its 30 s timeout does, and
\* a continuation that is ready runs.  Nothing obliges a response to be cut
\* short, or the script to be started.
SpecDownloadFair ==
    /\ SpecDownload
    /\ WF_vars(LaunchBatch)
    /\ WF_vars(IssueRequest)
    /\ WF_vars(SettleRequest)
    /\ WF_vars(JoinBatch)
    /\ WF_vars(EndPause)
    /\ WF_vars(WriteProperties)
    /\ WF_vars(JoinPageDownloads)

(***************************************************************************)
(* SpecRepair: the repair script on a corpus and an upload directory.      *)
(* Here downloads also holds the script's data: properties is the content  *)
(* of properties.json, files the web paths of the files under public/,     *)
(* queue the downloadQueue and updatedProperties the list the scan builds. *)
(* The corpora leave at most MAX_CONCURRENT images to fetch, one batch.    *)
(***************************************************************************)
MaxRepairCorpus == 2

includes(str, sub) ==
    \E i \in 1..Len(str) :
        i + Len(sub) - 1 <= Len(str) /\ SubSeq(str, i, i + Len(sub) - 1) = sub

\* path.extname of the URL's path, lower-cased, '.jpg' when it has none (for
\* a URL with a path and no query).
getImageExtension(url) ==
    LET dots == {i \in 1..Len(url) :
                    /\ SubSeq(url, i, i) = "."
                    /\ \A k \in i..Len(url) : SubSeq(url, k, k) # "/"}
    IN  IF dots = {} THEN ".jpg"
        ELSE toLowerCase(SubSeq(url, CHOOSE i \in dots : \A k \in dots : k <= i, Len(url)))

\* `/uploads/properties/${property.id}/image_${i}${ext}`, i counted from 0.
webPath(id, i, imageUrl) ==
    "/uploads/properties/" \o id \o "/image_" \o ToString(i) \o getImageExtension(imageUrl)

placeholderOf(id) == "/uploads/properties/" \o id \o "/placeholder.svg"

RECURSIVE externalImages(_, _)
\* The loop over property.image_urls from position i (counted from 1) on:
\* local paths and placeholders are skipped, the others get their web path.
externalImages(property, i) ==
    IF i > Len(property.image_urls) THEN <<>>
    ELSE LET imageUrl == property.image_urls[i]
         IN  IF ~startsWithHttp(imageUrl) \/ includes(imageUrl, "placehold")
             THEN externalImages(property, i + 1)
             ELSE <<[url |-> imageUrl, webPath |-> webPath(property.id, i - 1, imageUrl),
                     propertyId |-> property.id]>>
                    \o externalImages(property, i + 1)

RECURSIVE absentFrom(_, _)
\* The items whose file is not in files.
absentFrom(items, files) ==
    IF items = <<>> THEN <<>>
    ELSE IF Head(items).webPath \in files THEN absentFrom(Tail(items), files)
    ELSE <<Head(items)>> \o absentFrom(Tail(items), files)

RECURSIVE existingIn(_, _)
\* The paths of images whose file is in files.
existingIn(images, files) ==
    IF images = <<>> THEN <<>>
    ELSE IF Head(images) \in files THEN <<Head(images)>> \o existingIn(Tail(images), files)
    ELSE existingIn(Tail(images), files)

\* One turn of the scan: the images the record gets.  The web path of every
\* external image is pushed whether or not its file exists.
propertyImages(property, files) ==
    LET kept == existingIn(property.images, files)
        external == externalImages(property, 1)
        hasValidImages ==
            kept # <<>> \/ \E k \in DOMAIN external : external[k].webPath \in files
        images == kept \o [k \in DOMAIN external |-> external[k].webPath]
    IN  IF ~hasValidImages /\ images = <<>> THEN <<placeholderOf(property.id)>> ELSE images

RECURSIVE downloadQueue(_, _)
downloadQueue(properties, files) ==
    IF properties = <<>> THEN <<>>
    ELSE absentFrom(externalImages(Head(properties), 1), files)
            \o downloadQueue(Tail(properties), files)

updatedProperties(properties, files) ==
    [n \in DOMAIN properties |->
        [properties[n] EXCEPT !.images = propertyImages(properties[n], files)]]

RepairIds == <<"p1", "p2", "p3">>
StoredImages(id) == {<<>>, <<webPath(id, 0, "https://img.example/a.jpg")>>}
StoredImageUrls(id) ==
    {<<>>, <<"https://img.example/a.jpg">>,
     <<"https://img.example/a.jpg", "https://img.example/b.PNG">>,
     <<PlaceholderImage>>, <<"/uploads/properties/" \o id \o "/x.jpg">>}
StoredRecords(id) ==
    {[id |-> id, images |-> images, image_urls |-> urls] :
        images \in StoredImages(id), urls \in StoredImageUrls(id)}
\* The corpora: up to MaxRepairCorpus records, the n-th with the n-th id.
RepairCorpora ==
    UNION {{properties \in [1..n -> UNION {StoredRecords(RepairIds[k]) : k \in 1..n}] :
                \A k \in 1..n : properties[k].id = RepairIds[k]} : n \in 0..MaxRepairCorpus}
\* The upload directory: the first image of each record is there or not.
RepairFiles ==
    SUBSET {webPath(RepairIds[k], 0, "https://img.example/a.jpg") : k \in 1..MaxRepairCorpus}

NoRepair == [job |-> "idle", pc |-> "idle", total |-> 0, i |-> 0, status |-> <<>>,
             downloaded |-> 0, failed |-> 0, written |-> FALSE,
             properties |-> <<>>, files |-> {}, queue |-> <<>>, updatedProperties |-> <<>>]

InitRepair ==
    /\ db = InitDb
    /\ last = NoCall
    /\ now = 0
    /\ results = NoResults
    /\ invocation = NoInvocation
    /\ calls = NoCalls
    /\ \E properties \in RepairCorpora, files \in RepairFiles :
        downloads = [NoRepair EXCEPT !.properties = properties, !.files = files]

\* downloadMissingImages up to its loop: the scan of the corpus; with
\* nothing to download it returns without writing.
ScanProperties ==
    /\ downloads.job = "idle"
    /\ LET queue == downloadQueue(downloads.properties, downloads.files)
       IN  downloads' =
            IF queue = <<>> THEN [downloads EXCEPT !.job = "finished"]
            ELSE [downloads EXCEPT
                    !.job = "downloadMissingImages", !.pc = "loop",
                    !.queue = queue, !.total = Len(queue),
                    !.status = [k \in 1..Len(queue) |-> "queued"],
                    !.updatedProperties =
                        updatedProperties(downloads.properties, downloads.files)]
    /\ UNCHANGED <<db, last, now, results, invocation, calls>>

\* A request of the script settles: on success the file is there.
SettleDownload ==
    /\ \E k \in DOMAIN downloads.status, success \in BOOLEAN :
        /\ downloads.status[k] = "fetching"
        /\ downloads' = [downloads EXCEPT
                !.status[k] = IF success THEN "ok" ELSE "failed",
                !.files = IF success THEN @ \cup {downloads.queue[k].webPath} ELSE @]
    /\ UNCHANGED <<db, last, now, results, invocation, calls>>

\* The loop is over: updatedProperties is written to properties.json.
WriteUpdatedProperties ==
    /\ downloads.job = "downloadMissingImages"
    /\ downloads.pc = "loop"
    /\ downloads.i >= downloads.total
    /\ downloads' = [downloads EXCEPT !.job = "finished", !.pc = "idle", !.written = TRUE,
                                      !.properties = downloads.updatedProperties]
    /\ UNCHANGED <<db, last, now, results, invocation, calls>>

NextRepair ==
    \/ ScanProperties
    \/ LaunchBatch
    \/ IssueRequest
    \/ SettleDownload
    \/ AbortResponse
    \/ JoinBatch
    \/ WriteUpdatedProperties

SpecRepair == InitRepair /\ [][NextRepair]_vars

(***************************************************************************)
(* SpecFilter: getFilteredProperties on a corpus of records scraped in     *)
(* January 2024.  Instants are milliseconds since 2024-01-01T00:00:00Z;    *)
(* offset is the minutes the time zone of the process is ahead of UTC.     *)
(***************************************************************************)
MaxFilterCorpus == 2

digit(c) == CHOOSE d \in 0..9 : ToString(d) = c

RECURSIVE number(_)
\* The number a string of digits writes.
number(str) ==
    IF str = "" THEN 0
    ELSE 10 * number(SubSeq(str, 1, Len(str) - 1)) + digit(SubSeq(str, Len(str), Len(str)))

MsPerMinute == 60 * 1000
MsPerDay == 24 * 60 * MsPerMinute

\* new Date(str) for 'YYYY-MM-DD', which is midnight UTC of that day, and
\* for 'YYYY-MM-DDTHH:mm:ss.sssZ'.
Date(str) ==
    LET day == (number(SubSeq(str, 9, 10)) - 1) * MsPerDay
    IN  IF Len(str) = 10 THEN day
        ELSE day + number(SubSeq(str, 12, 13)) * 60 * MsPerMinute
                 + number(SubSeq(str, 15, 16)) * MsPerMinute
                 + number(SubSeq(str, 18, 19)) * 1000
                 + number(SubSeq(str, 21, 23))

\* date.setHours(hours, min, sec, ms): the time of day is set on the day the
\* instant falls on in the time zone of the process.
setHours(date, hours, min, sec, ms, offset) ==
    LET localTime == date + offset * MsPerMinute
        localMidnight == (localTime \div MsPerDay) * MsPerDay
    IN  localMidnight + hours * 60 * MsPerMinute + min * MsPerMinute + sec * 1000 + ms
            - offset * MsPerMinute

\* The date tests of the filter callback; an absent bound is ''.
passesDates(property, filter, offset) ==
    /\ filter.startDate # "" => ~(Date(property.scraped_at) < Date(filter.startDate))
    /\ filter.endDate # ""
        => ~(Date(property.scraped_at) > setHours(Date(filter.endDate), 23, 59, 59, 999, offset))

\* An optional number of the filter that is absent.
undefined == 0 - 1
\* if (x) for an optional number: undefined and 0 are falsy.
truthy(x) == x # undefined /\ x # 0

PriceChars == {"0", "1", "2", "3", "4", "5", "6", "7", "8", "9", ","}

\* property.price.match(/[\d,]+/): the first run of digits and commas, ''
\* standing for null.
priceMatch(price) ==
    LET starts == {i \in 1..Len(price) : SubSeq(price, i, i) \in PriceChars}
    IN  IF starts = {} THEN ""
        ELSE LET first == CHOOSE i \in starts : \A k \in starts : i <= k
                 last_ == CHOOSE j \in first..Len(price) :
                            /\ \A k \in first..j : SubSeq(price, k, k) \in PriceChars
                            /\ j = Len(price) \/ SubSeq(price, j + 1, j + 1) \notin PriceChars
             IN  SubSeq(price, first, last_)

RECURSIVE withoutCommas(_)
\* .replace(/,/g, '')
withoutCommas(str) ==
    IF str = "" THEN ""
    ELSE IF SubSeq(str, 1, 1) = "," THEN withoutCommas(SubSeq(str, 2, Len(str)))
    ELSE SubSeq(str, 1, 1) \o withoutCommas(SubSeq(str, 2, Len(str)))

\* parseInt of a string of digits: [nan, value], NaN for the empty string.
parseInt(str) == IF str = "" THEN [nan |-> TRUE, value |-> 0]
                 ELSE [nan |-> FALSE, value |-> number(str)]

passesType(property, filter) ==
    filter.propertyType # ""
        => toLowerCase(property.property_type) = toLowerCase(filter.propertyType)

passesLocation(property, filter) ==
    filter.location # ""
        => LET searchLocation == toLowerCase(filter.location)
           IN  \/ includes(toLowerCase(property.location), searchLocation)
               \/ includes(toLowerCase(property.city), searchLocation)
               \/ includes(toLowerCase(property.county), searchLocation)
               \/ includes(toLowerCase(property.neighborhood), searchLocation)

\* The price test: skipped when neither bound is truthy or the price has no
\* digits; a comparison with NaN is false.
passesPrice(property, filter) ==
    (truthy(filter.minPrice) \/ truthy(filter.maxPrice))
        => LET match == priceMatch(property.price)
               price == parseInt(withoutCommas(match))
           IN  match # ""
                => /\ ~(truthy(filter.minPrice) /\ ~price.nan /\ price.value < filter.minPrice)
                   /\ ~(truthy(filter.maxPrice) /\ ~price.nan /\ price.value > filter.maxPrice)

\* The filter callback.
passes(property, filter, offset) ==
    /\ passesDates(property, filter, offset)
    /\ passesType(property, filter)
    /\ passesLocation(property, filter)
    /\ passesPrice(property, filter)

RECURSIVE filterBy(_, _, _)
filterBy(properties, filter, offset) ==
    IF properties = <<>> THEN <<>>
    ELSE IF passes(Head(properties), filter, offset)
    THEN <<Head(properties)>> \o filterBy(Tail(properties), filter, offset)
    ELSE filterBy(Tail(properties), filter, offset)

\* getFilteredProperties; every call of the application passes a filter.
getFilteredProperties(b, s, filter, offset) ==
    Returned(s, filterBy(getAllProperties(b, s).value, filter, offset))

\* A filter of dates only.
DatesOnly(startDate, endDate) ==
    [startDate |-> startDate, endDate |-> endDate, propertyType |-> "", location |-> "",
     minPrice |-> undefined, maxPrice |-> undefined]

\* A record as far as the filter reads it.
Listing(id, at, type, place, price) ==
    [id |-> id, scraped_at |-> at, property_type |-> type, location |-> place.location,
     city |-> place.city, county |-> place.county, neighborhood |-> place.neighborhood,
     price |-> price]

Marina == [location |-> "Marina Walk", city |-> "Dubai", county |-> "Dubai", neighborhood |-> "JBR"]
Corniche == [location |-> "Corniche Road", city |-> "Abu Dhabi", county |-> "", neighborhood |-> ""]

ScrapedAt ==
    {"2024-01-04T23:59:59.999Z", "2024-01-05T00:00:00.000Z", "2024-01-05T12:30:00.000Z",
     "2024-01-05T23:59:00.000Z", "2024-01-06T00:00:00.000Z"}
FilterDates == {"", "2024-01-05", "2024-01-06"}
\* New York, UTC, Dubai, Delhi.
Offsets == {0 - 300, 0, 240, 330}

FilterCorpora ==
    UNION {[1..n -> {Listing("prop-1-0", at, "Apartment", Marina, "AED 1,200") :
                        at \in ScrapedAt}] : n \in 0..MaxFilterCorpus}

InitFilter ==
    /\ \E properties \in FilterCorpora :
        db = [b \in Backends |-> [properties |-> properties, history |-> <<>>]]
    /\ last = NoCall
    /\ now = 0
    /\ results = NoResults
    /\ downloads = NoDownloads
    /\ invocation = NoInvocation
    /\ calls = NoCalls

GetFilteredProperties ==
    /\ \E startDate \in FilterDates, endDate \in FilterDates, offset \in Offsets :
        LET filter == DatesOnly(startDate, endDate)
        IN  Called("getFilteredProperties", [filter |-> filter, offset |-> offset],
                   [b \in Backends |-> getFilteredProperties(b, db[b], filter, offset)])
    /\ UNCHANGED <<now, results, downloads, invocation, calls>>

NextFilter == GetFilteredProperties

SpecFilter == InitFilter /\ [][NextFilter]_vars

(***************************************************************************)
(* SpecCorpus: the adapter calls that write the corpus, the history left   *)
(* as it is.                                                               *)
(***************************************************************************)
NextCorpus ==
    \/ SaveProperties
    \/ UpdateProperty
    \/ DeleteProperty
    \/ BulkDeleteProperties

SpecCorpus == Init /\ [][NextCorpus]_vars

(***************************************************************************)
(* SpecExport: the export dialog's and the bulk-delete dialog's calls with *)
(* filters of every field, on corpora of listings two of which share an    *)
(* id; one call from each corpus.                                          *)
(***************************************************************************)
MaxExportCorpus == 3

\* deleteFilteredProperties: the records whose id is the id of a record the
\* filter selects are removed, and the rest is written.
deleteFilteredProperties(b, s, filter, offset) ==
    LET allProperties == getAllProperties(b, s).value
        filteredProperties == getFilteredProperties(b, s, filter, offset).value
        filteredIds == {filteredProperties[k].id : k \in DOMAIN filteredProperties}
        remainingProperties == SelectSeqBy(allProperties, filteredIds)
        deletedCount == Len(allProperties) - Len(remainingProperties)
        saved == saveProperties(b, s, remainingProperties)
    IN  Returned(saved.state, [deletedCount |-> deletedCount,
                               remainingCount |-> Len(remainingProperties)])

ExportListings ==
    {Listing("prop-1-0", "2024-01-05T23:59:00.000Z", "Apartment", Marina, "AED 1,200"),
     Listing("prop-1-1", "2024-01-06T00:00:00.000Z", "Villa", Corniche, "900"),
     Listing("prop-1-0", "2024-01-06T00:00:00.000Z", "Villa", Marina, "Call"),
     Listing("prop-2-0", "2024-01-05T23:59:00.000Z", "apartment", Corniche, "from 2,000 AED")}
ExportCorpora == SeqsUpTo(ExportListings, MaxExportCorpus)

ExportFilters ==
    [startDate : {"", "2024-01-06"}, endDate : {"", "2024-01-05"},
     propertyType : {"", "apartment"}, location : {"", "dubai"},
     minPrice : {undefined, 1000}, maxPrice : {undefined, 0, 1000}]
ExportOffsets == {0, 240}

InitExport ==
    /\ \E properties \in ExportCorpora :
        db = [b \in Backends |-> [properties |-> properties, history |-> <<>>]]
    /\ last = NoCall
    /\ now = 0
    /\ results = NoResults
    /\ downloads = NoDownloads
    /\ invocation = NoInvocation
    /\ calls = NoCalls

ExportFiltered ==
    /\ last = NoCall
    /\ \E filter \in ExportFilters, offset \in ExportOffsets :
        Called("getFilteredProperties", [filter |-> filter, offset |-> offset],
               [b \in Backends |-> getFilteredProperties(b, db[b], filter, offset)])
    /\ UNCHANGED <<now, results, downloads, invocation, calls>>

DeleteFiltered ==
    /\ last = NoCall
    /\ \E filter \in ExportFilters, offset \in ExportOffsets :
        Called("deleteFilteredProperties", [filter |-> filter, offset |-> offset],
               [b \in Backends |-> deleteFilteredProperties(b, db[b], filter, offset)])
    /\ UNCHANGED <<now, results, downloads, invocation, calls>>

NextExport ==
    \/ ExportFiltered
    \/ DeleteFiltered

SpecExport == InitExport /\ [][NextExport]_vars

(***************************************************************************)
(* SpecOverlap: calls on the corpus that do not wait for each other.  Each *)
(* client saves one record with savePropertiesToDb, which awaits its read  *)
(* of the corpus and then its write; other calls run at each await.  The   *)
(* filesystem adapter's fs.writeFile opens properties.json with truncation *)
(* and then writes it: calls.file is "truncated" in between, and db keeps  *)
(* the last content written in full.  The in-memory adapter assigns its    *)
(* array in one step.                                                      *)
(***************************************************************************)
UnexpectedEnd == "Unexpected end of JSON input"

\* fs.readFile and JSON.parse of properties.json, or the copy of the array.
readProperties(b, s, file) ==
    IF b = "filesystem" /\ file = "truncated" THEN Thrown(s, UnexpectedEnd)
    ELSE getAllProperties(b, s)

InitOverlap ==
    /\ \E existing \in SeqsUpTo(DedupCandidates, MaxExisting) :
          db = [b \in Backends |-> [properties |-> existing, history |-> <<>>]]
    /\ last = NoCall
    /\ now = 0
    /\ results = NoResults
    /\ downloads = NoDownloads
    /\ invocation = NoInvocation
    /\ calls = NoCalls

\* handleSaveProperty: saveProperty(property) is called.
BeginSaveProperty ==
    /\ \E c \in Clients, property \in DedupCandidates :
        /\ calls.call[c].pc = "idle"
        /\ calls' = [calls EXCEPT !.call[c].pc = "read",
                                  !.call[c].newProperties = <<property>>]
    /\ UNCHANGED <<db, last, now, results, downloads, invocation>>

\* savePropertiesToDb from its read of the corpus to its write: the keys,
\* the filter, and the throw for a batch of duplicates.
ReadExistingProperties ==
    /\ \E c \in Clients :
        /\ calls.call[c].pc = "read"
        /\ LET read == [b \in Backends |-> readProperties(b, db[b], calls.file)]
               unique == [b \in Backends |->
                            IF read[b].ok
                            THEN uniqueNewProperties(calls.call[c].newProperties,
                                                     existingKeys(read[b].value))
                            ELSE <<>>]
           IN  calls' = [calls EXCEPT
                    !.call[c].pc = "write",
                    !.call[c].existingProperties =
                        [b \in Backends |-> IF read[b].ok THEN read[b].value ELSE <<>>],
                    !.call[c].unique = unique,
                    !.call[c].threw = [b \in Backends |-> ~read[b].ok \/ unique[b] = <<>>]]
    /\ UNCHANGED <<db, last, now, results, downloads, invocation>>

\* fs.writeFile has opened the file: it is empty until the data is written.
TruncateFile ==
    /\ \E c \in Clients :
        /\ calls.call[c].pc = "write"
        /\ calls' = [calls EXCEPT
                !.call[c].pc = "writing",
                !.file = IF calls.call[c].threw["filesystem"] THEN @ ELSE "truncated"]
    /\ UNCHANGED <<db, last, now, results, downloads, invocation>>

\* The write is over on both backends and the call returns.
WriteFile ==
    /\ \E c \in Clients :
        /\ calls.call[c].pc = "writing"
        /\ db' = [b \in Backends |->
                    IF calls.call[c].threw[b] THEN db[b]
                    ELSE saveProperties(b, db[b],
                            calls.call[c].unique[b] \o calls.call[c].existingProperties[b]).state]
        /\ calls' = [calls EXCEPT
                !.call[c].pc = "done",
                !.file = IF calls.call[c].threw["filesystem"] THEN @ ELSE "whole"]
    /\ UNCHANGED <<last, now, results, downloads, invocation>>

\* A getAllProperties made while the saves are between their steps.
ReadWhileSaving ==
    /\ Called("getAllProperties", Void,
              [b \in Backends |-> readProperties(b, db[b], calls.file)])
    /\ UNCHANGED <<now, results, downloads, invocation, calls>>

NextOverlap ==
    \/ BeginSaveProperty
    \/ ReadExistingProperties
    \/ TruncateFile
    \/ WriteFile
    \/ ReadWhileSaving

SpecOverlap == InitOverlap /\ [][NextOverlap]_vars

(***************************************************************************)
(* SpecInvocation: the scrapes step by step.  invocation.trace lists what  *)
(* the call has done so far: the page fetches, extractions, record         *)
(* processing with its image downloads, and history appends, each with the *)
(* position k of the URL it is for.  scrapeUrl and scrapeHtml run in one   *)
(* step; scrapeBulk takes one step for the fetch and extraction of a URL   *)
(* and one for its processing.                                             *)
(***************************************************************************)
RECURSIVE trim(_)
\* String.prototype.trim, for spaces.
trim(str) ==
    IF Len(str) > 0 /\ SubSeq(str, 1, 1) = " " THEN trim(SubSeq(str, 2, Len(str)))
    ELSE IF Len(str) > 0 /\ SubSeq(str, Len(str), Len(str)) = " "
    THEN trim(SubSeq(str, 1, Len(str) - 1))
    ELSE str

RECURSIVE splitFrom(_, _, _)
\* The pieces of str from position i on, line being the piece in progress.
splitFrom(str, i, line) ==
    IF i > Len(str) THEN <<line>>
    ELSE IF SubSeq(str, i, i) = "\n" THEN <<line>> \o splitFrom(str, i + 1, "")
    ELSE splitFrom(str, i + 1, line \o SubSeq(str, i, i))

\* urls.split('\n')
split(str) == splitFrom(str, 1, "")

\* urls.split('\n').map(u => u.trim()).filter(Boolean)
urlList(urls) ==
    LET lines == split(urls)
    IN  Truthy([i \in 1..Len(lines) |-> trim(lines[i])])

RECURSIVE join(_)
join(lines) ==
    IF lines = <<>> THEN ""
    ELSE IF Len(lines) = 1 THEN lines[1]
    ELSE lines[1] \o "\n" \o join(Tail(lines))

BulkLines == {" ", "https://a.example/1", " https://b.example/2 "}
\* What is typed into the bulk field: up to MaxBulk lines.
BulkInputs == {join(lines) : lines \in SeqsUpTo(BulkLines, MaxBulk)}

Step(step, k) == [step |-> step, k |-> k]

\* The image downloads processScrapedData starts for a page.
downloadsOf(runs) == Sum([i \in 1..Len(runs) |-> Len(Truthy(runs[i].item.image_urls))])

\* What processScrapedData does for the k-th URL: the downloads, then the
\* history append unless the enhancement of a record threw.
processingSteps(runs, k) ==
    [j \in 1..downloadsOf(runs) |-> Step("downloadImage", k)]
        \o (IF rejects(runs) THEN <<>> ELSE <<Step("saveHistoryEntry", k)>>)

\* What a call of scrapeUrl does.
scrapeUrlSteps(url, page) ==
    IF url = "" \/ ~includesHttp(url) THEN <<>>
    ELSE IF ~page.fetched THEN <<Step("getHtml", 1)>>
    ELSE <<Step("getHtml", 1), Step("extractPropertyInfo", 1)>> \o processingSteps(page.runs, 1)

\* What a call of scrapeHtml does.
scrapeHtmlSteps(htmlLength, runs) ==
    IF htmlLength < MinHtmlLength THEN <<>>
    ELSE <<Step("extractPropertyInfo", 1)>> \o processingSteps(runs, 1)

InvocationRuns ==
    {[item |-> Item(2, 1, <<AbsoluteImage>>), fetched |-> <<TRUE>>, enhanced |-> "enhanced"],
     [item |-> Item(2, 2, <<>>), fetched |-> <<>>, enhanced |-> "failed"]}
InvocationPages == SeqsUpTo(InvocationRuns, MaxPage)

\* The call is the first one.
MayInvoke == invocation.pc = "idle"

\* What the history holds when the call is made: nothing, or the entry of
\* an earlier scrape.
EarlierHistories ==
    {<<>>, <<NewEntry([type |-> "HTML", details |-> "Pasted HTML content",
                       propertyCount |-> 1], 0, "q7zd")>>}

InitInvocation ==
    /\ \E history \in EarlierHistories :
          db = [b \in Backends |-> [properties |-> <<>>, history |-> history]]
    /\ last = NoCall
    /\ now = 1
    /\ results = NoResults
    /\ downloads = NoDownloads
    /\ invocation = NoInvocation
    /\ calls = NoCalls

Invoked(op, client, steps) ==
    invocation' = [NoInvocation EXCEPT !.pc = "done", !.op = op, !.client = client,
                                       !.trace = steps,
                                       !.history = [b \in Backends |-> db[b].history]]

\* The URLs typed into the single-URL field: also one of another scheme,
\* and one of another scheme with http in its path.
InvocationUrls == ScrapedUrls \cup {"ftp://c.example/3", "ftp://c.example/http"}

\* Whether getHtml can get the page: fetch throws on a URL that is not
\* http(s), and getHtml throws in turn.
Fetchable(url) == IF startsWithHttp(url) THEN BOOLEAN ELSE {FALSE}

InvokeScrapeUrl ==
    /\ MayInvoke
    /\ \E client \in Clients, url \in InvocationUrls, runs \in InvocationPages,
          rnd \in IngestSuffixes :
        \E fetched \in Fetchable(url) :
            LET page == [fetched |-> fetched, runs |-> runs]
            IN  /\ Scraped("scrapeUrl", client, [url |-> url, runs |-> runs],
                           [b \in Backends |-> scrapeUrl(b, db[b], url, page, now, rnd)])
                /\ Invoked("scrapeUrl", client, scrapeUrlSteps(url, page))
    /\ UNCHANGED <<now, downloads, calls>>

InvokeScrapeHtml ==
    /\ MayInvoke
    /\ \E client \in Clients, htmlLength \in HtmlLengths,
          runs \in InvocationPages, rnd \in IngestSuffixes :
            /\ Scraped("scrapeHtml", client,
                       [url |-> RawContentMarker, runs |-> runs, htmlLength |-> htmlLength],
                       [b \in Backends |-> scrapeHtml(b, db[b], htmlLength, runs, now, rnd)])
            /\ Invoked("scrapeHtml", client, scrapeHtmlSteps(htmlLength, runs))
    /\ UNCHANGED <<now, downloads, calls>>

\* scrapeBulk up to its loop: with no URL it throws.
BulkCall ==
    /\ MayInvoke
    /\ \E client \in Clients, urls \in BulkInputs :
        LET list == urlList(urls)
        IN  IF list = <<>>
            THEN /\ Scraped("scrapeBulk", client, urls,
                            [b \in Backends |->
                                Thrown(db[b], "No valid URLs found in bulk input.")])
                 /\ Invoked("scrapeBulk", client, <<>>)
            ELSE /\ invocation' = [NoInvocation EXCEPT
                        !.pc = "fetch", !.op = "scrapeBulk", !.client = client,
                        !.urlList = list, !.k = 1,
                        !.history = [b \in Backends |-> db[b].history]]
                 /\ results' = [results EXCEPT ![client] = <<>>]
                 /\ last' = [op |-> "scrapeBulk", arg |-> urls,
                             res |-> [b \in Backends |-> [ok |-> TRUE, value |-> "pending"]]]
                 /\ UNCHANGED db
    /\ UNCHANGED <<now, downloads, calls>>

\* As nextTurn, the loop left at the first URL that failed.
nextTurnLeavingOnFailure(steps) ==
    [invocation EXCEPT !.trace = @ \o steps, !.k = @ + 1,
                       !.pc = IF \/ invocation.k = Len(invocation.urlList)
                                 \/ (steps # <<>> /\ steps[Len(steps)].step = "caught")
                              THEN "return" ELSE "fetch"]

\* The turn of the loop for the k-th URL is over.
nextTurn(steps) ==
    [invocation EXCEPT !.trace = @ \o steps, !.k = @ + 1,
                       !.pc = IF invocation.k = Len(invocation.urlList)
                              THEN "return" ELSE "fetch"]

\* getHtml and extractPropertyInfo for the k-th URL; a failure is caught and
\* the loop goes on.
BulkFetch ==
    /\ invocation.pc = "fetch"
    /\ \E fetched \in BOOLEAN :
        invocation' =
            IF fetched
            THEN [invocation EXCEPT
                    !.trace = @ \o <<Step("getHtml", invocation.k),
                                     Step("extractPropertyInfo", invocation.k)>>,
                    !.pc = "process"]
            ELSE nextTurn(<<Step("getHtml", invocation.k), Step("caught", invocation.k)>>)
    /\ UNCHANGED <<db, last, now, results, downloads, calls>>

\* processScrapedData for the k-th URL and allResults.push; a failure is
\* caught and the loop goes on.
BulkProcess ==
    /\ invocation.pc = "process"
    /\ \E runs \in InvocationPages, rnd \in IngestSuffixes :
        LET url == invocation.urlList[invocation.k]
            r == [b \in Backends |->
                    processed(b, db[b], runs, url,
                              [type |-> "BULK",
                               details |-> "Bulk operation included: " \o url], now, rnd)]
        IN  /\ db' = [b \in Backends |-> r[b].state]
            /\ invocation' =
                IF r["filesystem"].ok
                THEN [nextTurn(processingSteps(runs, invocation.k)) EXCEPT
                        !.allResults = @ \o r["filesystem"].value]
                ELSE nextTurn(processingSteps(runs, invocation.k)
                                \o <<Step("caught", invocation.k)>>)
    /\ UNCHANGED <<last, now, results, downloads, calls>>

\* return allResults
BulkReturn ==
    /\ invocation.pc = "return"
    /\ Scraped("scrapeBulk", invocation.client, last.arg,
               [b \in Backends |-> Returned(db[b], invocation.allResults)])
    /\ invocation' = [invocation EXCEPT !.pc = "done"]
    /\ UNCHANGED <<now, downloads, calls>>

NextInvocation ==
    \/ InvokeScrapeUrl
    \/ InvokeScrapeHtml
    \/ BulkCall
    \/ BulkFetch
    \/ BulkProcess
    \/ BulkReturn

SpecInvocation == InitInvocation /\ [][NextInvocation]_vars

(***************************************************************************)
(* SpecCity: normalizeCityName of the export helpers on the city texts of  *)
(* listings: an area and a city, either one first or alone.                *)
(***************************************************************************)
normalizeCityName(cityString) ==
    IF cityString = "" THEN ""
    ELSE LET city == trim(toLowerCase(cityString))
         IN  IF \/ includes(city, "dubai") \/ includes(city, "business bay")
                \/ includes(city, "downtown") \/ includes(city, "marina")
                \/ includes(city, "jlt") \/ includes(city, "jumeirah")
             THEN "dubai"
             ELSE IF \/ includes(city, "abu dhabi") \/ includes(city, "abudhabi")
                     \/ includes(city, "khalifa city")
             THEN "abu dhabi"
             ELSE IF \/ includes(city, "sharjah") \/ includes(city, "al nahda")
                     \/ includes(city, "al majaz")
             THEN "sharjah"
             ELSE IF includes(city, "ajman") \/ includes(city, "al nuaimiya")
             THEN "ajman"
             ELSE "dubai"

Areas == {"", "Business Bay", "Downtown", "Marina", "JLT", "Jumeirah", "Khalifa City",
          "Al Nahda", "Al Majaz", "Al Nuaimiya", "Corniche", "Unknown Location"}
Cities == {"", " ", "Dubai", "Abu Dhabi", "AbuDhabi", "Sharjah", "Ajman", "Al Ain"}
\* 'Al Nahda, Sharjah', 'Ajman Marina', 'Abu Dhabi Corniche', ...
CityInputs ==
    {area \o ", " \o city : area \in Areas \ {""}, city \in Cities \ {""}}
        \cup {city \o " " \o area : area \in Areas \ {""}, city \in Cities \ {""}}
        \cup Areas \cup Cities

NormalizeCityName ==
    /\ \E cityString \in CityInputs :
        last' = [op |-> "normalizeCityName", arg |-> cityString,
                 res |-> [b \in Backends |->
                            [ok |-> TRUE, value |-> normalizeCityName(cityString)]]]
    /\ UNCHANGED <<db, now, results, downloads, invocation, calls>>

NextCity == NormalizeCityName

SpecCity == Init /\ [][NextCity]_vars

(***************************************************************************)
(* Storage adapter properties.                                             *)
(***************************************************************************)
Absent(properties, id) == \A i \in 1..Len(properties) : properties[i].id # id

\* C1: on both backends, updateProperty with a record whose id matches no
\* record of the corpus fails with a not-found error and leaves the corpus
\* unchanged; it never inserts the record.
C1_UpdateOfAbsentIdFailsOnBothBackends ==
    [][\A b \in Backends :
          (last'.op = "updateProperty" /\ Absent(db[b].properties, last'.arg.id))
              => /\ ~last'.res[b].ok
                 /\ last'.res[b].value = "not found"
                 /\ db'[b].properties = db[b].properties]_vars

\* What a caller sees of a result, the generated history ids and timestamps
\* left out.
EntrySeen(e) == [type |-> e.type, details |-> e.details, propertyCount |-> e.propertyCount]
ResultSeen(op, r) ==
    IF op = "getAllHistory" /\ r.ok
    THEN [ok |-> TRUE, value |-> [i \in 1..Len(r.value) |-> EntrySeen(r.value[i])]]
    ELSE r

\* C2: after every sequence of adapter calls from the same initial corpus
\* and history, the call just made returned the same result or the same
\* error on FilesystemAdapter and on InMemoryAdapter.
C2_BackendsReturnTheSame ==
    ResultSeen(last.op, last.res["filesystem"]) = ResultSeen(last.op, last.res["memory"])

(***************************************************************************)
(* Deduplication properties.                                               *)
(***************************************************************************)
IsSave(call) == call.op \in {"savePropertiesToDb", "saveProperty"}

\* The fingerprints that apply to a candidate, by its provenance marker.
ApplicableFingerprints(c) ==
    LET place == {locationKey(c)}
        ref == IF c.reference_id # "" THEN {refKey(c)} ELSE {}
        permit == IF c.permit_number # "" THEN {permitKey(c)} ELSE {}
        enhanced == IF c.enhanced_title # "" THEN {enhancedTitleKey(c)} ELSE {}
        original == IF c.original_title # "" THEN {originalTitleKey(c)} ELSE {}
    IN  IF c.original_url = RawContentMarker
        THEN place \cup enhanced \cup original \cup ref \cup permit
        ELSE {originalKey(c)} \cup place \cup ref \cup permit

Collides(c, corpus) == ApplicableFingerprints(c) \cap existingKeys(corpus) # {}

\* The records a call put in front of the corpus it found.
Added(pre, post) == SubSeq(post, 1, Len(post) - Len(pre))

\* C3: savePropertiesToDb accepts a candidate if and only if none of its
\* applicable fingerprints is in the fingerprint set of the existing corpus.
C3_AcceptedIffNoFingerprintCollides ==
    [][last'.op = "savePropertiesToDb"
          => \A b \in Backends : \A i \in 1..Len(last'.arg) :
                (last'.arg[i] \in Range(Added(db[b].properties, db'[b].properties)))
                    <=> ~Collides(last'.arg[i], db[b].properties)]_vars

\* C3 witness: a raw-content candidate was accepted into a corpus that had a
\* record, and the call returned normally.
C3_Witness ==
    /\ last.op = "savePropertiesToDb"
    /\ last.arg[1].original_url = RawContentMarker
    /\ \A b \in Backends :
          /\ last.res[b].ok
          /\ Len(db[b].properties) = 2
          /\ db[b].properties[1] = last.arg[1]

\* C4: a non-empty batch of duplicates fails with the all-duplicates error
\* and leaves the corpus unchanged; an empty batch returns normally and
\* leaves the corpus unchanged.
C4_AllDuplicatesFailsEmptyBatchIsSilent ==
    [][IsSave(last')
          => \A b \in Backends :
                /\ (/\ last'.arg # <<>>
                    /\ \A i \in 1..Len(last'.arg) : Collides(last'.arg[i], db[b].properties))
                       => /\ ~last'.res[b].ok
                          /\ last'.res[b].value = AllDuplicates
                          /\ db'[b] = db[b]
                /\ last'.arg = <<>>
                       => /\ last'.res[b].ok
                          /\ last'.res[b].value = Void
                          /\ db'[b] = db[b]]_vars

\* C4 witness: a batch of two duplicates was refused with the error.
C4_Witness ==
    /\ last.op = "savePropertiesToDb"
    /\ Len(last.arg) = 2
    /\ \A b \in Backends :
          /\ ~last.res[b].ok
          /\ last.res[b].value = AllDuplicates
          /\ Len(db[b].properties) > 0

Copies(properties, c) == Cardinality({i \in 1..Len(properties) : properties[i] = c})

\* C5: when a save of a single record has stored it, saving the same single
\* record again fails with the all-duplicates error and the corpus keeps
\* exactly one copy; a record of the corpus repeated in a batch that also
\* has new records is skipped, and the new records alone are added.
C5_SecondIngestionIsRefused ==
    [][IsSave(last')
          => \A b \in Backends :
                /\ (/\ IsSave(last) /\ Len(last.arg) = 1 /\ last.res[b].ok
                    /\ last'.arg = last.arg)
                       => /\ ~last'.res[b].ok
                          /\ last'.res[b].value = AllDuplicates
                          /\ Copies(db'[b].properties, last.arg[1]) = 1
                /\ \A i \in 1..Len(last'.arg) :
                      (/\ last'.arg[i] \in Range(db[b].properties)
                       /\ \E j \in 1..Len(last'.arg) :
                             ~Collides(last'.arg[j], db[b].properties))
                       => /\ last'.res[b].ok
                          /\ last'.arg[i] \notin Range(Added(db[b].properties, db'[b].properties))
                          /\ \A j \in 1..Len(last'.arg) :
                                last'.arg[j] \in Range(Added(db[b].properties, db'[b].properties))
                                    <=> ~Collides(last'.arg[j], db[b].properties)
                          /\ Copies(db'[b].properties, last'.arg[i])
                                = Copies(db[b].properties, last'.arg[i])]_vars

\* C5 witness: the second save of a record just stored was refused, the
\* corpus holding one copy of it.
C5_Witness ==
    /\ last.op = "saveProperty"
    /\ \A b \in Backends :
          /\ ~last.res[b].ok
          /\ Copies(db[b].properties, last.arg[1]) = 1
          /\ db[b].properties[1] = last.arg[1]

SamePlace(p, q) ==
    /\ p.location = q.location
    /\ p.price = q.price
    /\ p.bedrooms = q.bedrooms
    /\ p.bathrooms = q.bathrooms

\* C6 as claimed: of two candidates with the same location, price, bedrooms
\* and bathrooms and different titles at most one ends up in the corpus,
\* whether they arrive in one batch or in successive calls.
C6_AtMostOnePerPlace ==
    \A b \in Backends : \A i, j \in 1..Len(db[b].properties) :
        (/\ i # j
         /\ SamePlace(db[b].properties[i], db[b].properties[j]))
            => db[b].properties[i].original_title = db[b].properties[j].original_title

\* C6 as amended: a candidate with the location, price, bedrooms and
\* bathrooms of a record of the corpus and another title is not added by a
\* later savePropertiesToDb call.
C6_LaterCandidateOfSamePlaceIsRefused ==
    [][IsSave(last')
          => \A b \in Backends : \A i \in 1..Len(last'.arg) :
                (\E k \in 1..Len(db[b].properties) :
                    /\ SamePlace(last'.arg[i], db[b].properties[k])
                    /\ last'.arg[i].original_title # db[b].properties[k].original_title)
                   => /\ last'.arg[i] \notin Range(Added(db[b].properties, db'[b].properties))
                      /\ Copies(db'[b].properties, last'.arg[i])
                            = Copies(db[b].properties, last'.arg[i])]_vars

\* C6 witness: a single candidate was refused that has the place of the
\* stored record and another title.
C6_Witness ==
    /\ last.op = "saveProperty"
    /\ \A b \in Backends :
          /\ ~last.res[b].ok
          /\ Len(db[b].properties) = 1
          /\ SamePlace(last.arg[1], db[b].properties[1])
          /\ last.arg[1].original_title # db[b].properties[1].original_title

(***************************************************************************)
(* Ingestion, history and download properties.                             *)
(***************************************************************************)
\* C7: in every reachable state no two records of the corpus have the same
\* id, whatever scrapes, saves, edits and deletes came before.
C7_IdsUniqueInCorpus ==
    \A b \in Backends :
        \A i, j \in 1..Len(db[b].properties) :
            i # j => db[b].properties[i].id # db[b].properties[j].id

HistoryRetention == 50
\* C8: after any sequence of saveHistoryEntry calls the stored history holds
\* at most 50 entries.
C8_HistoryHoldsAtMostFifty ==
    \A b \in Backends : Len(db[b].history) <= HistoryRetention

\* C9: at no instant are more than 5 image downloads in flight, in the
\* repair script and in the ingestion of a page alike.
C9_AtMostFiveInFlight == Cardinality(InFlight) <= MAX_CONCURRENT

IsScrape(call) == call.op \in {"scrapeUrl", "scrapeHtml", "scrapeUrlEarlier", "scrapeHtmlEarlier"}
NoneFetched(run) == \A j \in DOMAIN run.fetched : ~run.fetched[j]
\* C10: every record a scrape returns has a non-empty image_urls, and when
\* no image was extracted or every download failed it is the placeholder
\* alone.
C10_ReturnedRecordsHaveImages ==
    IsScrape(last) =>
        \A c \in Clients : \A i \in 1..Len(results[c]) :
            /\ results[c][i].image_urls # <<>>
            /\ NoneFetched(last.arg.runs[i]) => results[c][i].image_urls = <<PlaceholderImage>>

(***************************************************************************)
(* Ingestion sequencing and error handling.                                *)
(***************************************************************************)
\* C11: a scrape that succeeds on the empty corpus with a page of 2 records
\* leaves the corpus with those 2 records and the history with 1 entry
\* whose propertyCount is 2.
C11_ScrapeOfTwoStoresTwo ==
    (/\ IsScrape(last)
     /\ last.res["filesystem"].ok
     /\ Len(last.res["filesystem"].value) = 2)
        => \A b \in Backends :
              /\ Len(db[b].properties) = 2
              /\ Len(db[b].history) = 1
              /\ db[b].history[1].propertyCount = 2

\* C12: a scrape that returns has appended exactly one history entry, whose
\* propertyCount is the number of records it returned, and has left the
\* entries that were there as they were.
C12_OneEntryPerInvocation ==
    (invocation.pc = "done" /\ last.res["filesystem"].ok)
        => \A b \in Backends :
              /\ Len(db[b].history) = Len(invocation.history[b]) + 1
              /\ SubSeq(db[b].history, 1, Len(invocation.history[b])) = invocation.history[b]
              /\ db[b].history[Len(db[b].history)].propertyCount = Len(last.res[b].value)

(***************************************************************************)
(* Deletion.                                                               *)
(***************************************************************************)
\* C13: deleteProperty returns normally on both backends, leaves the corpus
\* unchanged when no record has the id, and a second call with the same id
\* leaves the corpus the first call left.
C13_DeleteToleratesAbsenceAndIsIdempotent ==
    [][last'.op = "deleteProperty"
          => \A b \in Backends :
                /\ last'.res[b].ok
                /\ Absent(db[b].properties, last'.arg) => db'[b].properties = db[b].properties
                /\ deleteProperty(b, db'[b], last'.arg).ok
                /\ deleteProperty(b, db'[b], last'.arg).state = db'[b]]_vars

\* C13 witness: a delete has returned normally and left records of other
\* ids in place.
C13_Witness ==
    /\ last.op = "deleteProperty"
    /\ \A b \in Backends :
          /\ last.res[b].ok
          /\ Len(db[b].properties) = MaxCorpus
          /\ Absent(db[b].properties, last.arg)

\* C14: bulkDeleteProperties removes the records whose id is among ids and
\* no other, keeps the rest in their order, and returns a deletedCount of
\* at most the length of ids.
C14_BulkDeleteRemovesListedAndCountsThem ==
    [][last'.op = "bulkDeleteProperties"
          => \A b \in Backends :
                /\ last'.res[b].ok
                /\ db'[b].properties = SelectSeqBy(db[b].properties, Range(last'.arg))
                /\ last'.res[b].value.deletedCount <= Len(last'.arg)]_vars

(***************************************************************************)
(* Bulk ingestion and input validation.                                    *)
(***************************************************************************)
\* The history entries the call has appended.
appended(b) == SubSeq(db[b].history, Len(invocation.history[b]) + 1, Len(db[b].history))

IsFetch(s) == s.step = "getHtml"
IsAppend(s) == s.step = "saveHistoryEntry"

RECURSIVE sourcesOf(_)
\* The details of each entry, once per record it counts.
sourcesOf(entries) ==
    IF entries = <<>> THEN <<>>
    ELSE [i \in 1..entries[1].propertyCount |-> entries[1].details]
            \o sourcesOf(Tail(entries))

BulkDetails(url) == "Bulk operation included: " \o url

\* C15: scrapeBulk works through its URLs one after the other in the order
\* given; a URL that fails neither fails the call nor stops the later URLs
\* from being fetched; the call returns the records of the URLs that
\* succeeded, concatenated in URL order.
C15_BulkIsSequentialAndSurvivesFailures ==
    (invocation.op = "scrapeBulk" /\ invocation.urlList # <<>>)
        => LET trace == invocation.trace
               fetches == SelectSeq(trace, IsFetch)
               saves == SelectSeq(trace, IsAppend)
           IN  /\ \A i, j \in DOMAIN trace : i < j => trace[i].k <= trace[j].k
               /\ \A i \in DOMAIN fetches : fetches[i].k = i
               /\ invocation.pc = "done"
                    => /\ Len(fetches) = Len(invocation.urlList)
                       /\ \A b \in Backends :
                            /\ last.res[b].ok
                            /\ Len(appended(b)) = Len(saves)
                            /\ \A i \in DOMAIN saves :
                                 appended(b)[i].details
                                    = BulkDetails(invocation.urlList[saves[i].k])
                            /\ [i \in DOMAIN last.res[b].value |->
                                  BulkDetails(last.res[b].value[i].original_url)]
                                 = sourcesOf(appended(b))

\* C15 witness: a bulk call of two URLs has returned the records of the
\* second after the first failed.
C15_Witness ==
    /\ invocation.op = "scrapeBulk"
    /\ invocation.pc = "done"
    /\ Len(invocation.urlList) = 2
    /\ \E i \in DOMAIN invocation.trace : invocation.trace[i] = Step("caught", 1)
    /\ last.res["filesystem"].ok
    /\ last.res["filesystem"].value # <<>>

\* Every character of str is a space or a line break.
AllBlank(str) == \A i \in 1..Len(str) : SubSeq(str, i, i) \in {" ", "\n"}

\* The call was made with input the entry point is to refuse.
Malformed ==
    \/ invocation.op = "scrapeUrl" /\ ~startsWithHttp(last.arg.url)
    \/ invocation.op = "scrapeHtml" /\ last.arg.htmlLength < MinHtmlLength
    \/ invocation.op = "scrapeBulk" /\ AllBlank(last.arg)

ValidationErrors ==
    {"Invalid URL provided.", "Invalid HTML provided.", "No valid URLs found in bulk input."}

\* C16: scrapeUrl with an empty or non-http URL, scrapeHtml with fewer than
\* 100 characters and scrapeBulk with only blank lines fail with a validation
\* error, having fetched no page, extracted nothing, downloaded no image,
\* appended no history entry and written no record.
C16_MalformedInputFailsBeforeAnyWork ==
    (invocation.pc = "done" /\ Malformed)
        => /\ invocation.trace = <<>>
           /\ \A b \in Backends :
                /\ ~last.res[b].ok
                /\ last.res[b].value \in ValidationErrors
                /\ db[b].history = invocation.history[b]
                /\ db[b].properties = <<>>

(***************************************************************************)
(* Per-record failures during ingestion.                                   *)
(***************************************************************************)
\* C17: a record whose enhancement fails is still returned, its original
\* title echoed as the enhanced one; the scrape does not fail for it and
\* returns one record per candidate of the page.
C17_FailedEnhancementEchoesTheOriginal ==
    IsScrape(last)
        => \A b \in Backends :
              /\ ~last.res[b].ok => last.res[b].value # EnhancementFailed
              /\ last.res[b].ok
                    => /\ Len(last.res[b].value) = Len(last.arg.runs)
                       /\ \A i \in DOMAIN last.arg.runs :
                            last.arg.runs[i].enhanced = "failed"
                                => last.res[b].value[i].enhanced_title
                                      = last.arg.runs[i].item.title

\* The reference is one of a file stored by the application.
IsLocalReference(ref) == Len(ref) >= 9 /\ SubSeq(ref, 1, 9) = "/uploads/"

\* Every image URL extracted for the run resolves to an absolute URL.
Resolvable(run, originalUrl) ==
    \A j \in DOMAIN run.item.image_urls : absoluteUrl(run.item.image_urls[j], originalUrl).ok

\* C18: the image list of a record a scrape returns has one reference per
\* extracted image URL, in their order: the absolute source URL where the
\* download failed, a local reference where it succeeded.
C18_FailedDownloadKeepsItsSourceUrl ==
    (IsScrape(last) /\ last.res["filesystem"].ok)
        => \A i \in DOMAIN last.arg.runs :
            LET run == last.arg.runs[i]
                stored == last.res["filesystem"].value[i].image_urls
            IN  (run.item.image_urls # <<>> /\ Resolvable(run, last.arg.url))
                    => /\ Len(stored) = Len(run.item.image_urls)
                       /\ \A j \in DOMAIN stored :
                            /\ IsLocalReference(stored[j])
                                \/ stored[j] = absoluteUrl(run.item.image_urls[j], last.arg.url).ref
                            /\ ~run.fetched[j]
                                => stored[j] = absoluteUrl(run.item.image_urls[j], last.arg.url).ref

\* C19: the image list the repair script writes for a record holds only
\* references to files that are there, downloaded by the run or found by it,
\* and is the record's placeholder alone when there is none.
C19_RepairStoresOnlyDownloadedImages ==
    downloads.written
        => \A n \in DOMAIN downloads.properties :
            LET property == downloads.properties[n]
            IN  IF \E j \in DOMAIN property.images : property.images[j] \in downloads.files
                THEN \A j \in DOMAIN property.images : property.images[j] \in downloads.files
                ELSE property.images = <<placeholderOf(property.id)>>

(***************************************************************************)
(* Date filter.                                                            *)
(***************************************************************************)
\* The calendar day an ISO date or timestamp names.
DayOf(str) == SubSeq(str, 1, 10)
DayBefore(a, b) == number(SubSeq(a, 9, 10)) < number(SubSeq(b, 9, 10))

\* C20: whatever the time zone of the process, a record scraped on the
\* calendar day of endDate (and not before startDate) is among the records
\* returned, and with startDate alone the records left out are exactly
\* those scraped before it.
C20_EndDateCoversItsWholeDay ==
    last.op = "getFilteredProperties"
        => \A b \in Backends : \A n \in DOMAIN db[b].properties :
            LET property == db[b].properties[n]
                filter == last.arg.filter
                returned == \E k \in DOMAIN last.res[b].value : last.res[b].value[k] = property
                early == filter.startDate # ""
                            /\ DayBefore(DayOf(property.scraped_at), filter.startDate)
            IN  /\ (filter.endDate # "" /\ DayOf(property.scraped_at) = filter.endDate /\ ~early)
                        => returned
                /\ filter.endDate = "" => (returned <=> ~early)

(***************************************************************************)
(* Filtered export and filtered deletion.                                  *)
(***************************************************************************)
\* What the price texts of the listings say.
PriceOf == [text \in {"AED 1,200", "900", "from 2,000 AED"} |->
                IF text = "AED 1,200" THEN 1200 ELSE IF text = "900" THEN 900 ELSE 2000]

\* The record satisfies every predicate the filter supplies; a record whose
\* price names no number is held to no price bound.
Satisfies(property, filter) ==
    /\ filter.startDate # "" => ~DayBefore(DayOf(property.scraped_at), filter.startDate)
    /\ filter.endDate # "" => ~DayBefore(filter.endDate, DayOf(property.scraped_at))
    /\ filter.propertyType # ""
        => toLowerCase(property.property_type) = toLowerCase(filter.propertyType)
    /\ filter.location # ""
        => \E field \in {property.location, property.city, property.county,
                         property.neighborhood} :
                includes(toLowerCase(field), toLowerCase(filter.location))
    /\ property.price \in DOMAIN PriceOf
        => /\ filter.minPrice # undefined => PriceOf[property.price] >= filter.minPrice
           /\ filter.maxPrice # undefined => PriceOf[property.price] <= filter.maxPrice

RECURSIVE Satisfying(_, _)
Satisfying(properties, filter) ==
    IF properties = <<>> THEN <<>>
    ELSE IF Satisfies(Head(properties), filter)
    THEN <<Head(properties)>> \o Satisfying(Tail(properties), filter)
    ELSE Satisfying(Tail(properties), filter)

\* C21: getFilteredProperties returns the records that satisfy every
\* predicate the filter supplies, in corpus order, and all of them: the
\* whole corpus for a filter with no field set.
C21_FilterReturnsExactlyTheMatches ==
    last.op = "getFilteredProperties"
        => \A b \in Backends :
              last.res[b].value = Satisfying(db[b].properties, last.arg.filter)

RECURSIVE Unselected(_, _, _)
\* The records getFilteredProperties does not select, in their order.
Unselected(properties, filter, offset) ==
    IF properties = <<>> THEN <<>>
    ELSE IF passes(Head(properties), filter, offset)
    THEN Unselected(Tail(properties), filter, offset)
    ELSE <<Head(properties)>> \o Unselected(Tail(properties), filter, offset)

\* C22: deleteFilteredProperties leaves the records getFilteredProperties
\* does not select for the filter, unchanged and in their order, and removes
\* the others; deletedCount is the number removed, remainingCount the number
\* left, and the two add up to the size of the corpus before the call.
C22_DeleteFilteredRemovesExactlyTheSelection ==
    [][last'.op = "deleteFilteredProperties"
          => \A b \in Backends :
                LET selected == getFilteredProperties(b, db[b], last'.arg.filter,
                                                      last'.arg.offset).value
                    result == last'.res[b].value
                IN  /\ db'[b].properties
                          = Unselected(db[b].properties, last'.arg.filter, last'.arg.offset)
                    /\ result.deletedCount = Len(selected)
                    /\ result.remainingCount = Len(db'[b].properties)
                    /\ result.deletedCount + result.remainingCount = Len(db[b].properties)]_vars

(***************************************************************************)
(* The corpus write of savePropertiesToDb.                                 *)
(***************************************************************************)
RECURSIVE IsSubsequence(_, _)
\* The elements of part occur in whole, in the same order.
IsSubsequence(part, whole) ==
    IF part = <<>> THEN TRUE
    ELSE IF whole = <<>> THEN FALSE
    ELSE IF Head(part) = Head(whole) THEN IsSubsequence(Tail(part), Tail(whole))
    ELSE IsSubsequence(part, Tail(whole))

\* C25: a savePropertiesToDb that succeeds leaves a corpus made of records
\* of the batch, in batch order, followed by the previous corpus as it was.
C25_AcceptedArePrependedToTheCorpus ==
    [][(last'.op \in {"savePropertiesToDb", "saveProperty"})
          => \A b \in Backends :
                last'.res[b].ok
                    => LET accepted == Len(db'[b].properties) - Len(db[b].properties)
                       IN  /\ accepted >= 0
                           /\ SubSeq(db'[b].properties, accepted + 1, Len(db'[b].properties))
                                = db[b].properties
                           /\ IsSubsequence(SubSeq(db'[b].properties, 1, accepted), last'.arg)]_vars

\* C25 witness: of a batch of two, one record was accepted in front of a
\* record already stored.
C25_Witness ==
    /\ last.op = "savePropertiesToDb"
    /\ Len(last.arg) = 2
    /\ \A b \in Backends :
          /\ last.res[b].ok
          /\ Len(db[b].properties) = 2
          /\ db[b].properties[1] \in Range(last.arg)
          /\ db[b].properties[2] \notin Range(last.arg)

(***************************************************************************)
(* Overlapping calls on the corpus.                                        *)
(***************************************************************************)
\* C23: a getAllProperties made while a saveProperties is under way returns
\* a whole corpus, the one before the write or the one after it, and never
\* fails on an empty or half-written file.
C23_ReadSeesAWholeCorpus ==
    [][last'.op = "getAllProperties"
          => \A b \in Backends :
                /\ last'.res[b].ok
                /\ last'.res[b].value = db[b].properties]_vars

\* C28: once the saves of both clients have returned, every record either
\* of them accepted is in the corpus.
C28_NoAcceptedRecordIsLost ==
    (\A c \in Clients : calls.call[c].pc = "done")
        => \A b \in Backends : \A c \in Clients :
              ~calls.call[c].threw[b]
                  => \A k \in DOMAIN calls.call[c].unique[b] :
                        calls.call[c].unique[b][k] \in Range(db[b].properties)

(***************************************************************************)
(* Export helpers.                                                         *)
(***************************************************************************)
Emirates == {"dubai", "abu dhabi", "sharjah", "ajman"}
\* How a text names each of the other three cities, and the areas of each.
Spellings == [name \in Emirates \ {"dubai"} |->
                IF name = "abu dhabi" THEN {"abu dhabi", "abudhabi"} ELSE {name}]
AreasOf == [name \in Emirates \ {"dubai"} |->
                IF name = "abu dhabi" THEN {"khalifa city"}
                ELSE IF name = "sharjah" THEN {"al nahda", "al majaz"}
                ELSE {"al nuaimiya"}]
\* The text, lower-cased, has one of the words.
Has(text, words) == \E word \in words : includes(toLowerCase(text), word)

\* C24: for a non-empty input normalizeCityName returns one of the four
\* city names; an input that names Ajman, Sharjah or Abu Dhabi (and no
\* second city) gets that city, and an input with neither the name nor an
\* area of any of the three gets 'dubai'.
C24_CityIsTheOneNamed ==
    (last.op = "normalizeCityName" /\ last.arg # "")
        => LET value == last.res["filesystem"].value
               named == {name \in DOMAIN Spellings : Has(last.arg, Spellings[name])}
           IN  /\ value \in Emirates
               /\ \A name \in DOMAIN Spellings :
                    (named = {name} /\ ~Has(last.arg, {"dubai"})) => value = name
               /\ (\A name \in DOMAIN Spellings :
                        ~Has(last.arg, Spellings[name] \cup AreasOf[name]))
                    => value = "dubai"

(***************************************************************************)
(* Repair script properties: the batches of downloadMissingImages.         *)
(***************************************************************************)
\* The batch of a position of the queue, counted from 0.
BatchOf(k) == (k - 1) \div MAX_CONCURRENT

Counted == {k \in DOMAIN downloads.status : downloads.status[k] = "counted"}

\* C26: in downloadMissingImages no download of a later batch has started
\* (not even its sleep) unless every download of the batches before it has
\* settled and been counted, and the counters cover whole batches only: they
\* add up to the number of counted downloads, and a batch is counted as a
\* whole or not at all.
C26_BatchesRunOneAfterTheOther ==
    downloads.job = "downloadMissingImages"
        => /\ \A j, k \in DOMAIN downloads.status :
                (BatchOf(j) < BatchOf(k) /\ downloads.status[k] # "queued")
                    => downloads.status[j] = "counted"
           /\ downloads.downloaded + downloads.failed = Cardinality(Counted)
           /\ \A j, k \in DOMAIN downloads.status :
                (BatchOf(j) = BatchOf(k) /\ downloads.status[j] = "counted")
                    => downloads.status[k] = "counted"

\* A download of the second batch is in flight after a first batch with a
\* failure in it was counted.
C26_Witness ==
    /\ downloads.job = "downloadMissingImages"
    /\ downloads.total > MAX_CONCURRENT
    /\ downloads.status[MAX_CONCURRENT + 1] = "fetching"
    /\ downloads.downloaded + downloads.failed = MAX_CONCURRENT
    /\ downloads.failed >= 1

\* C27: in a run of downloadMissingImages a request that was issued is never
\* issued again and a download that settled, failed ones included, never
\* goes back to the queue, to its sleep or to a request; a batch adds to
\* failed exactly its failed downloads and to downloaded exactly its
\* successful ones; and when the loop is over every position of the queue
\* was counted and downloaded + failed is the length of the queue.
C27_EachUrlIsAttemptedOnceAndCountedOnce ==
    [][(/\ downloads.job = "downloadMissingImages"
        /\ downloads'.job \in {"downloadMissingImages", "finished"})
          => LET s == downloads.status
                 t == downloads'.status
             IN  /\ DOMAIN t = DOMAIN s
                 /\ \A k \in DOMAIN s :
                      /\ s[k] = "fetching" => t[k] \in {"fetching", "ok", "failed", "aborted"}
                      /\ s[k] \in {"ok", "failed"} => t[k] \in {s[k], "counted"}
                      /\ s[k] = "counted" => t[k] = "counted"
                 /\ downloads'.failed - downloads.failed
                      = Cardinality({k \in DOMAIN s : s[k] = "failed" /\ t[k] = "counted"})
                 /\ downloads'.downloaded - downloads.downloaded
                      = Cardinality({k \in DOMAIN s : s[k] = "ok" /\ t[k] = "counted"})
                 /\ (downloads'.pc = "loop" /\ downloads'.i >= downloads'.total)
                      => /\ \A k \in DOMAIN t : t[k] = "counted"
                         /\ downloads'.downloaded + downloads'.failed = downloads'.total]_vars

\* The loop of a queue of two batches is over with successes and failures.
C27_Witness ==
    /\ downloads.job = "downloadMissingImages"
    /\ downloads.pc = "loop"
    /\ downloads.total > MAX_CONCURRENT
    /\ downloads.i >= downloads.total
    /\ downloads.failed >= 2
    /\ downloads.downloaded >= 1

\* C29: a run of downloadMissingImages with a queue to download comes to its
\* final write: every download of every batch settles, so every join
\* completes and properties.json is rewritten.
C29_EveryRunReachesTheFinalWrite ==
    (downloads.job = "downloadMissingImages") ~> downloads.written
====
